---------------------------- MODULE Spec2Model ----------------------------
(***************************************************************************)
(* Kabada: the GitHub repository importer (backend/routes/github.js).      *)
(*                                                                         *)
(* Strings that the code inspects character by character (archive entry    *)
(* names, paths) are sequences of one-character strings.  Time is counted  *)
(* in ticks; sizes are counted in abstract units.  The numeric limits of   *)
(* the source that would make the state space too large are scaled down    *)
(* and named after the source constant they stand for.                     *)
(***************************************************************************)
EXTENDS Integers, Sequences, FiniteSets, TLC

(***************************************************************************)
(* Limits of the source.                                                   *)
(***************************************************************************)
\* github.js:25  const RATE_LIMIT_MAX = 5
RATE_LIMIT_MAX == 5
\* github.js:26  const RATE_LIMIT_WINDOW = 60000 (ms); here in ticks of 30 s
RATE_LIMIT_WINDOW == 2

\* github.js:13  MAX_REPO_SIZE_MB = parseInt(process.env.MAX_REPO_SIZE_MB) || 100
MAX_REPO_SIZE_MB == 100
\* github.js:14
MAX_REPO_SIZE_BYTES == MAX_REPO_SIZE_MB * 1024 * 1024
\* github.js:15  MAX_SINGLE_FILE_BYTES = 10 * 1024 * 1024; here in units of 5 MiB
MAX_SINGLE_FILE_BYTES == 2
\* github.js:16  MAX_FILE_COUNT = 500; scaled down
MAX_FILE_COUNT == 3
\* github.js:468  BATCH_SIZE = 10; scaled down, smaller than MAX_FILE_COUNT as in
\* the source
BATCH_SIZE == 2

(***************************************************************************)
(* Bounds of the model.                                                    *)
(***************************************************************************)
\* entries of an archive
MaxEntries == 4
\* the clock stops advancing here
MaxTime == 3
\* rate-limit checks recorded, all clients together
MaxCalls == 7

Clients == {"a", "b"}

VARIABLES
  rateLimitMap,   \* github.js:24  Map ip -> {count, resetTime}
  now,            \* Date.now()
  log,            \* history: per client, the checks made, <<time, allowed>>
  inv,            \* the invocations of POST /import: locals and position
  containers      \* the Container collection: the saved documents, in order

rateVars == <<rateLimitMap, now, log>>
vars == <<rateLimitMap, now, log, inv, containers>>

\* the invocations of POST /import
Requests == {1}

NoEntry == [count |-> 0, resetTime |-> -1]

(***************************************************************************)
(* checkRateLimit (github.js:205-220).                                     *)
(***************************************************************************)
\* the result of one call: what it returns and the map it leaves
checkRateLimit_GtMax(map, ip, t) ==
  LET entry == map[ip] IN
  IF entry = NoEntry \/ t > entry.resetTime
  THEN [allowed |-> TRUE,
        map |-> [map EXCEPT ![ip] = [count |-> 1, resetTime |-> t + RATE_LIMIT_WINDOW]]]
  ELSE IF entry.count > RATE_LIMIT_MAX
       THEN [allowed |-> FALSE, map |-> map]
       ELSE [allowed |-> TRUE, map |-> [map EXCEPT ![ip].count = entry.count + 1]]

\* a check inside the window allowed without being counted
checkRateLimit_Uncounted(map, ip, t) ==
  LET entry == map[ip] IN
  IF entry = NoEntry \/ t > entry.resetTime
  THEN [allowed |-> TRUE,
        map |-> [map EXCEPT ![ip] = [count |-> 1, resetTime |-> t + RATE_LIMIT_WINDOW]]]
  ELSE [allowed |-> entry.count < RATE_LIMIT_MAX, map |-> map]

\* one entry for all clients: every check writes every key
checkRateLimit_SharedKey(map, ip, t) ==
  LET entry == map[ip] IN
  IF entry = NoEntry \/ t > entry.resetTime
  THEN [allowed |-> TRUE,
        map |-> [c \in Clients |-> [count |-> 1, resetTime |-> t + RATE_LIMIT_WINDOW]]]
  ELSE IF entry.count >= RATE_LIMIT_MAX
       THEN [allowed |-> FALSE, map |-> map]
       ELSE [allowed |-> TRUE,
             map |-> [c \in Clients |-> [entry EXCEPT !.count = entry.count + 1]]]

\* a denied check counted as well
checkRateLimit_CountDenied(map, ip, t) ==
  LET entry == map[ip] IN
  IF entry = NoEntry \/ t > entry.resetTime
  THEN [allowed |-> TRUE,
        map |-> [map EXCEPT ![ip] = [count |-> 1, resetTime |-> t + RATE_LIMIT_WINDOW]]]
  ELSE [allowed |-> entry.count < RATE_LIMIT_MAX,
        map |-> [map EXCEPT ![ip].count = entry.count + 1]]

\* the window taken as over at resetTime itself
checkRateLimit_ResetAtBoundary(map, ip, t) ==
  LET entry == map[ip] IN
  IF entry = NoEntry \/ t >= entry.resetTime
  THEN [allowed |-> TRUE,
        map |-> [map EXCEPT ![ip] = [count |-> 1, resetTime |-> t + RATE_LIMIT_WINDOW]]]
  ELSE IF entry.count >= RATE_LIMIT_MAX
       THEN [allowed |-> FALSE, map |-> map]
       ELSE [allowed |-> TRUE, map |-> [map EXCEPT ![ip].count = entry.count + 1]]

checkRateLimit(map, ip, t) ==
  LET entry == map[ip] IN
  IF entry = NoEntry \/ t > entry.resetTime
  THEN [allowed |-> TRUE,
        map |-> [map EXCEPT ![ip] = [count |-> 1, resetTime |-> t + RATE_LIMIT_WINDOW]]]
  ELSE IF entry.count >= RATE_LIMIT_MAX
       THEN [allowed |-> FALSE, map |-> map]
       ELSE [allowed |-> TRUE, map |-> [map EXCEPT ![ip].count = entry.count + 1]]

\* the sweep deleting an entry at resetTime already
sweepMap_AtBoundary(map, t) ==
  [ip \in Clients |->
     IF map[ip] # NoEntry /\ t >= map[ip].resetTime THEN NoEntry ELSE map[ip]]

\* the setInterval callback (github.js:223-230)
sweepMap(map, t) ==
  [ip \in Clients |->
     IF map[ip] # NoEntry /\ t > map[ip].resetTime THEN NoEntry ELSE map[ip]]

\* null, where a parsed reference is expected
NullRef == [isNull |-> TRUE, owner |-> <<>>, repo |-> <<>>, branch |-> <<>>]

\* no response of the metadata service yet
NoMeta ==
  [transport |-> "", statusCode |-> 0, parses |-> FALSE, hasSize |-> FALSE, size |-> 0]

\* an invocation before the request arrives.  calls, sent, meta and fetch are
\* history: the functions the handler has called, in order; the responses it
\* has sent; the response of the metadata service; and, where the steps
\* inside fetchBuffer are modelled, the state of each fetchBuffer call
IdleInvocation ==
  [pc |-> "idle", clientIp |-> "", repoUrl |-> <<>>, requestedBranch |-> <<>>,
   parsed |-> NullRef, meta |-> NoMeta, calls |-> <<>>, sent |-> 0, fetch |-> <<>>,
   owner |-> <<>>, repo |-> <<>>, branch |-> <<>>, zipFetches |-> <<>>,
   entries |-> <<>>, trace |-> <<>>,
   files |-> <<>>, totalSize |-> 0, skippedCount |-> 0,
   finalName |-> <<>>, upload |-> <<>>, i |-> 0, uploadedFiles |-> <<>>,
   status |-> 0, body |-> [error |-> ""]]

InitRate ==
  /\ rateLimitMap = [ip \in Clients |-> NoEntry]
  /\ now = 0
  /\ log = [ip \in Clients |-> <<>>]
  /\ inv = [r \in Requests |-> IdleInvocation]
  /\ containers = <<>>

\* a request of client ip reaches checkRateLimit
CallsLogged == Len(log["a"]) + Len(log["b"])

RateCheck(ip) ==
  /\ CallsLogged < MaxCalls
  /\ LET r == checkRateLimit(rateLimitMap, ip, now) IN
       /\ rateLimitMap' = r.map
       /\ log' = [log EXCEPT ![ip] = Append(@, <<now, r.allowed>>)]
  /\ UNCHANGED <<now, inv, containers>>

Sweep ==
  /\ rateLimitMap' = sweepMap(rateLimitMap, now)
  /\ rateLimitMap' # rateLimitMap
  /\ UNCHANGED <<now, log, inv, containers>>

Tick ==
  /\ now < MaxTime
  /\ now' = now + 1
  /\ UNCHANGED <<rateLimitMap, log, inv, containers>>

NextRate ==
  \/ \E ip \in Clients : RateCheck(ip)
  \/ Sweep
  \/ Tick

SpecRate == InitRate /\ [][NextRate]_vars

(***************************************************************************)
(* Strings: sequences of one-character strings, with the JavaScript        *)
(* operations the importer applies to them.                                *)
(***************************************************************************)
LowerLetters ==
  <<"a","b","c","d","e","f","g","h","i","j","k","l","m",
    "n","o","p","q","r","s","t","u","v","w","x","y","z">>
UpperLetters ==
  <<"A","B","C","D","E","F","G","H","I","J","K","L","M",
    "N","O","P","Q","R","S","T","U","V","W","X","Y","Z">>
Digits == {"0","1","2","3","4","5","6","7","8","9"}

IsUpper(c) == \E k \in 1..Len(UpperLetters) : c = UpperLetters[k]
IsLower(c) == \E k \in 1..Len(LowerLetters) : c = LowerLetters[k]
\* [a-zA-Z]
IsLetter(c) == IsUpper(c) \/ IsLower(c)

\* String.prototype.toLowerCase
toLowerCase(s) ==
  [i \in 1..Len(s) |->
     IF IsUpper(s[i])
     THEN LowerLetters[CHOOSE k \in 1..Len(UpperLetters) : s[i] = UpperLetters[k]]
     ELSE s[i]]

\* String.prototype.startsWith
startsWith(s, prefix) ==
  Len(prefix) <= Len(s) /\ SubSeq(s, 1, Len(prefix)) = prefix

\* String.prototype.endsWith
endsWith(s, suffix) ==
  Len(suffix) <= Len(s) /\ SubSeq(s, Len(s) - Len(suffix) + 1, Len(s)) = suffix

\* s.substring(n) with n counted from 0
substringFrom(s, n) == SubSeq(s, n + 1, Len(s))

\* s.substring(0, n)
substringTo(s, n) == IF Len(s) <= n THEN s ELSE SubSeq(s, 1, n)

\* String.prototype.split on a one-character separator
RECURSIVE split(_, _)
split(s, sep) ==
  IF \A i \in 1..Len(s) : s[i] # sep
  THEN <<s>>
  ELSE LET i == CHOOSE k \in 1..Len(s) :
                  s[k] = sep /\ \A m \in 1..(k - 1) : s[m] # sep
       IN <<SubSeq(s, 1, i - 1)>> \o split(SubSeq(s, i + 1, Len(s)), sep)

\* Array.prototype.filter
RECURSIVE filterNonEmpty(_)
filterNonEmpty(parts) ==
  IF parts = <<>> THEN <<>>
  ELSE IF Head(parts) = <<>> THEN filterNonEmpty(Tail(parts))
       ELSE <<Head(parts)>> \o filterNonEmpty(Tail(parts))

\* the first part alone
join_First(parts, sep) == IF parts = <<>> THEN <<>> ELSE parts[1]

\* Array.prototype.join with a one-character separator
RECURSIVE join(_, _)
join(parts, sep) ==
  IF parts = <<>> THEN <<>>
  ELSE IF Len(parts) = 1 THEN parts[1]
       ELSE parts[1] \o <<sep>> \o join(Tail(parts), sep)

DotDot == <<".", ".">>

(***************************************************************************)
(* path.basename and path.extname of Node (posix): the base name is the    *)
(* last path part, trailing slashes ignored; the extension runs from the   *)
(* last '.' of the base name to its end, and is empty when the base name   *)
(* has no '.', when its only '.' is its first character, or when it is     *)
(* "..".                                                                   *)
(***************************************************************************)
basenameEnd(p) ==
  IF \A i \in 1..Len(p) : p[i] = "/" THEN 0
  ELSE CHOOSE i \in 1..Len(p) : p[i] # "/" /\ \A m \in (i + 1)..Len(p) : p[m] = "/"

basename(p) ==
  LET end == basenameEnd(p) IN
  IF end = 0 THEN <<>>
  ELSE LET slashes == {i \in 1..end : p[i] = "/"}
           startPart == IF slashes = {} THEN 1
                        ELSE (CHOOSE i \in slashes : \A m \in slashes : m <= i) + 1
       IN SubSeq(p, startPart, end)

extname(p) ==
  LET base == basename(p)
      dots == {i \in 1..Len(base) : base[i] = "."}
  IN IF dots = {} THEN <<>>
     ELSE LET startDot == CHOOSE i \in dots : \A m \in dots : m <= i IN
          IF startDot = 1 \/ base = DotDot THEN <<>>
          ELSE SubSeq(base, startDot, Len(base))

\* github.js:18-21
BLOCKED_EXTENSIONS ==
  { <<".","e","x","e">>, <<".","b","a","t">>, <<".","c","m","d">>, <<".","s","h">>,
    <<".","m","s","i">>, <<".","d","l","l">>, <<".","s","o">>, <<".","b","i","n">>,
    <<".","c","o","m">>, <<".","s","c","r">>, <<".","p","i","f">>, <<".","v","b","s">>,
    <<".","w","s","f">>, <<".","p","s","1">> }

\* github.js:75-78
isBlockedFile(filename) ==
  toLowerCase(extname(filename)) \in BLOCKED_EXTENSIONS

(***************************************************************************)
(* sanitizePath (github.js:84-102): the normalized path, or null.          *)
(***************************************************************************)
\* null, where a string is expected: no string, since the elements of a string
\* are single characters
Null == <<"null">>

\* line 86: filePath.replace(/\\/g, '/')
normalizeSeparators(filePath) ==
  [i \in 1..Len(filePath) |-> IF filePath[i] = "\\" THEN "/" ELSE filePath[i]]

\* sanitizePath testing the segments of the path as given, before the
\* separators are normalized
sanitizePath_SplitRaw(filePath) ==
  LET normalized == normalizeSeparators(filePath) IN
  IF startsWith(normalized, <<"/">>)
     \/ (Len(normalized) >= 2 /\ IsLetter(normalized[1]) /\ normalized[2] = ":")
  THEN Null
  ELSE LET segments == split(filePath, "/") IN
       IF \E k \in 1..Len(segments) : segments[k] = DotDot
       THEN Null
       ELSE normalized

sanitizePath(filePath) ==
  LET normalized == normalizeSeparators(filePath) IN
  IF startsWith(normalized, <<"/">>)
     \/ (Len(normalized) >= 2 /\ IsLetter(normalized[1]) /\ normalized[2] = ":")
  THEN Null
  ELSE LET segments == split(normalized, "/") IN
       IF \E k \in 1..Len(segments) : segments[k] = DotDot
       THEN Null
       ELSE normalized

\* JavaScript truthiness of a string-or-null
falsy(v) == v = Null \/ v = <<>>

(***************************************************************************)
(* parseGitHubUrl (github.js:37-70): {owner, repo, branch}, or null.       *)
(***************************************************************************)
Main == <<"m","a","i","n">>
Master == <<"m","a","s","t","e","r">>
Tree == <<"t","r","e","e">>
DotGit == <<".","g","i","t">>
Https == <<"h","t","t","p","s",":","/","/">>
Http == <<"h","t","t","p",":","/","/">>
GitHubHost == <<"g","i","t","h","u","b",".","c","o","m","/">>

\* String.prototype.trim, for blanks
RECURSIVE trim(_)
trim(s) ==
  IF s # <<>> /\ Head(s) = " " THEN trim(Tail(s))
  ELSE IF s # <<>> /\ s[Len(s)] = " " THEN trim(SubSeq(s, 1, Len(s) - 1))
       ELSE s

\* the protocol stripped only when it is https
stripProtocol_HttpsOnly(url) ==
  IF startsWith(url, Https) THEN substringFrom(url, Len(Https)) ELSE url

\* line 41: url.replace(/^https?:\/\//, '')
stripProtocol(url) ==
  IF startsWith(url, Https) THEN substringFrom(url, Len(Https))
  ELSE IF startsWith(url, Http) THEN substringFrom(url, Len(Http))
       ELSE url

\* the pattern without its anchors: one allowed character is enough
validPattern_Unanchored(s) ==
  \E i \in 1..Len(s) : IsLetter(s[i]) \/ s[i] \in Digits \/ s[i] \in {".", "_", "-"}

\* line 64: /^[a-zA-Z0-9._-]+$/
validPattern(s) ==
  /\ Len(s) >= 1
  /\ \A i \in 1..Len(s) : IsLetter(s[i]) \/ s[i] \in Digits \/ s[i] \in {".", "_", "-"}

parseGitHubUrl(rawUrl) ==
  LET url == stripProtocol(trim(rawUrl)) IN
  IF ~startsWith(url, GitHubHost) THEN NullRef
  ELSE LET parts == filterNonEmpty(split(substringFrom(url, Len(GitHubHost)), "/")) IN
       IF Len(parts) < 2 THEN NullRef
       ELSE LET owner == parts[1]
                repo == IF endsWith(parts[2], DotGit)
                        THEN SubSeq(parts[2], 1, Len(parts[2]) - Len(DotGit))
                        ELSE parts[2]
                branch == IF Len(parts) >= 4 /\ parts[3] = Tree
                          THEN join(SubSeq(parts, 4, Len(parts)), "/")
                          ELSE Main
            IN IF ~validPattern(owner) \/ ~validPattern(repo) THEN NullRef
               ELSE [isNull |-> FALSE, owner |-> owner, repo |-> repo, branch |-> branch]

(***************************************************************************)
(* Archives.  An entry is what the loop reads of an AdmZip entry: its      *)
(* entryName, isDirectory, header.size (the declared size) and the length  *)
(* of getData() (the decoded size).                                        *)
(***************************************************************************)
Entry(name, dir, size, dataLen) ==
  [entryName |-> name, isDirectory |-> dir, size |-> size, dataLen |-> dataLen]

RootDir   == Entry(<<"r","/">>, TRUE, 0, 0)
ReadmeMd  == Entry(<<"r","/","a",".","m","d">>, FALSE, 1, 1)
SrcAppJs  == Entry(<<"r","/","s","/","b",".","j","s">>, FALSE, 2, 2)
NotesExe  == Entry(<<"r","/","n",".","e","x","e">>, FALSE, 1, 1)
UpperExe  == Entry(<<"r","/","N",".","E","x","E">>, FALSE, 1, 1)
DotSh     == Entry(<<"r","/",".","s","h">>, FALSE, 1, 1)
Traversal == Entry(<<"r","/",".",".","\\","e">>, FALSE, 1, 1)
Absolute  == Entry(<<"r","/","/","e">>, FALSE, 1, 1)
DriveAbs  == Entry(<<"r","/","C",":","e">>, FALSE, 1, 1)
Backslash == Entry(<<"r","/","s","\\","c">>, FALSE, 1, 1)
TooBig    == Entry(<<"r","/","b","i","g">>, FALSE,
                   MAX_SINGLE_FILE_BYTES + 1, MAX_SINGLE_FILE_BYTES + 1)
EmptyFile == Entry(<<"r","/","z">>, FALSE, 0, 0)
DotDotDir == Entry(<<"r","/",".",".","/">>, TRUE, 0, 0)
RootFile  == Entry(<<"r","/">>, FALSE, 1, 1)

\* the entries the generated archives are made of
EntryKinds ==
  { RootDir, ReadmeMd, NotesExe, Traversal, Absolute, DriveAbs, Backslash,
    TooBig, EmptyFile }

\* every archive of at most MaxEntries entries of these kinds
AllArchives == UNION { [1..n -> EntryKinds] : n \in 0..MaxEntries }

(***************************************************************************)
(* The extraction loop (github.js:355-419).                                *)
(***************************************************************************)
\* line 362
rootPrefixOf(entries) ==
  IF Len(entries) > 0
  THEN Head(split(entries[1].entryName, "/")) \o <<"/">>
  ELSE <<>>

\* lines 369-372
relativePathOf(entry, rootPrefix) ==
  IF rootPrefix # <<>> /\ startsWith(entry.entryName, rootPrefix)
  THEN substringFrom(entry.entryName, Len(rootPrefix))
  ELSE entry.entryName

\* an entry refused without being counted
skip_Uncounted(acc) == acc

skip(acc) == [acc EXCEPT !.skippedCount = @ + 1]

admit(acc, entry, safePath) ==
  [files |-> Append(acc.files,
                    [relativePath |-> safePath,
                     filename |-> basename(safePath),
                     size |-> entry.dataLen]),
   totalSize |-> acc.totalSize + entry.dataLen,
   skippedCount |-> acc.skippedCount]

\* one iteration with the file count limit tested with > instead of >=
extractEntry_CountOffByOne(acc, entry, rootPrefix) ==
  IF entry.isDirectory THEN acc
  ELSE LET relativePath == relativePathOf(entry, rootPrefix) IN
       IF relativePath = <<>> THEN acc
       ELSE LET safePath == sanitizePath(relativePath) IN
            IF falsy(safePath) THEN skip(acc)
            ELSE IF isBlockedFile(safePath) THEN skip(acc)
            ELSE IF entry.size > MAX_SINGLE_FILE_BYTES THEN skip(acc)
            ELSE IF Len(acc.files) > MAX_FILE_COUNT THEN skip(acc)
            ELSE IF entry.dataLen = 0 THEN skip(acc)
            ELSE admit(acc, entry, safePath)

\* one iteration of the loop, lines 364-419: acc is {files, totalSize,
\* skippedCount} before the entry, the result is what they are after it
extractEntry(acc, entry, rootPrefix) ==
  IF entry.isDirectory THEN acc
  ELSE LET relativePath == relativePathOf(entry, rootPrefix) IN
       IF relativePath = <<>> THEN acc
       ELSE LET safePath == sanitizePath(relativePath) IN
            IF falsy(safePath) THEN skip(acc)
            ELSE IF isBlockedFile(safePath) THEN skip(acc)
            ELSE IF entry.size > MAX_SINGLE_FILE_BYTES THEN skip(acc)
            ELSE IF Len(acc.files) >= MAX_FILE_COUNT THEN skip(acc)
            ELSE IF entry.dataLen = 0 THEN skip(acc)
            ELSE admit(acc, entry, safePath)

\* lines 356-358
ExtractInit == [files |-> <<>>, totalSize |-> 0, skippedCount |-> 0]

\* the loop: element k+1 of the result is {files, totalSize, skippedCount}
\* after the first k entries
RECURSIVE extractTrace(_, _, _)
extractTrace(entries, k, acc) ==
  IF k > Len(entries) THEN <<acc>>
  ELSE <<acc>> \o extractTrace(entries, k + 1,
                               extractEntry(acc, entries[k], rootPrefixOf(entries)))

(***************************************************************************)
(* POST /api/github/import (github.js:266-507).  One action per stretch of *)
(* the handler between two awaits; the outcome of the awaited call is the  *)
(* action's input.                                                         *)
(***************************************************************************)
Dev == <<"d","e","v">>
PlainUrl == GitHubHost \o <<"o","/","r">>
TreeMainUrl == Https \o GitHubHost \o <<"o","/","r","/">> \o Tree \o <<"/">> \o Main
TreeDevUrl == GitHubHost \o <<"o","/","r",".","g","i","t","/">> \o Tree \o <<"/">> \o Dev

\* req.body.repoUrl: absent, not a GitHub URL, and three GitHub URLs
RequestUrls == { <<>>, <<"x">>, PlainUrl, TreeMainUrl, TreeDevUrl }
\* req.body.branch: absent, or a branch name
RequestedBranches == { <<>>, Main, Dev }

\* a response of the metadata service: the transport fails, or there is a
\* status code and a body, which parses as JSON or not and has a size (KB) or
\* not
MetaReply(transport, statusCode, parses, hasSize, size) ==
  [transport |-> transport, statusCode |-> statusCode, parses |-> parses,
   hasSize |-> hasSize, size |-> size]

\* the repository sizes (KB) at the ceiling and one above it
CeilingKB == MAX_REPO_SIZE_MB * 1024

MetaFailures ==
  { MetaReply("error", 0, FALSE, FALSE, 0),
    MetaReply("ok", 404, TRUE, FALSE, 0),
    MetaReply("ok", 302, TRUE, TRUE, 1),
    MetaReply("ok", 200, FALSE, FALSE, 0) }

MetaOutcomes ==
  MetaFailures \cup
  { MetaReply("ok", 200, TRUE, FALSE, 0),
    MetaReply("ok", 200, TRUE, TRUE, CeilingKB),
    MetaReply("ok", 200, TRUE, TRUE, CeilingKB + 1) }

\* fetchJson resolving with whatever body parses, the status code not looked at
fetchJson_AnyStatus(reply) ==
  IF reply.transport = "error" THEN [ok |-> FALSE, hasSize |-> FALSE, size |-> 0]
  ELSE IF ~reply.parses THEN [ok |-> FALSE, hasSize |-> FALSE, size |-> 0]
       ELSE [ok |-> TRUE, hasSize |-> reply.hasSize, size |-> reply.size]

\* fetchJson (github.js:175-200): rejects on a transport error (lines 197,
\* 198), on a status other than 200 (187) and on a body that does not parse
\* (195); resolves with the parsed body otherwise
fetchJson(reply) ==
  IF reply.transport = "error" THEN [ok |-> FALSE, hasSize |-> FALSE, size |-> 0]
  ELSE IF reply.statusCode # 200 THEN [ok |-> FALSE, hasSize |-> FALSE, size |-> 0]
  ELSE IF ~reply.parses THEN [ok |-> FALSE, hasSize |-> FALSE, size |-> 0]
       ELSE [ok |-> TRUE, hasSize |-> reply.hasSize, size |-> reply.size]

\* line 315: repoMeta.size || 0
sizeOrZero(repoMeta) == IF repoMeta.hasSize THEN repoMeta.size ELSE 0

\* the outcomes of fetchBuffer: a rejection, a buffer AdmZip cannot open, or
\* the buffer of an archive
FetchFailed == [kind |-> "error", entries |-> <<>>]
CorruptZip == [kind |-> "corrupt", entries |-> <<>>]
ZipOf(entries) == [kind |-> "zip", entries |-> entries]
ZipOutcomes(archives) == {FetchFailed, CorruptZip} \cup {ZipOf(a) : a \in archives}

\* crypto.randomBytes(3).toString('hex')
Suffixes == { <<"0","0","a","1","f","f">>, <<"7","e","5","7","0","1">> }

respond(rec, status, body) ==
  [rec EXCEPT !.pc = "done", !.status = status, !.body = body, !.sent = @ + 1]

error(rec, status, kind) == respond(rec, status, [error |-> kind])

\* line 292: requestedBranch || parsed.branch
branchOf(requestedBranch, parsed) ==
  IF falsy(requestedBranch) THEN parsed.branch ELSE requestedBranch

\* lines 268-294 and the call of fetchJson at 304
ImportStart(r, ips, urls, branches) ==
  /\ inv[r].pc = "idle"
  /\ \E ip \in ips, repoUrl \in urls, requestedBranch \in branches :
       LET rl == checkRateLimit(rateLimitMap, ip, now)
           rec == [inv[r] EXCEPT !.clientIp = ip, !.repoUrl = repoUrl,
                                 !.requestedBranch = requestedBranch,
                                 !.calls = <<"checkRateLimit">>]
           parsed == parseGitHubUrl(repoUrl)
           rec2 == [rec EXCEPT !.parsed = parsed,
                               !.calls = Append(@, "parseGitHubUrl")]
       IN /\ rateLimitMap' = rl.map
          /\ log' = [log EXCEPT ![ip] = Append(@, <<now, rl.allowed>>)]
          /\ inv' = [inv EXCEPT ![r] =
               IF ~rl.allowed THEN error(rec, 429, "rateLimited")
               ELSE IF falsy(repoUrl) THEN error(rec, 400, "urlRequired")
               ELSE IF parsed.isNull THEN error(rec2, 400, "invalidUrl")
               ELSE [rec2 EXCEPT !.owner = parsed.owner, !.repo = parsed.repo,
                                 !.branch = branchOf(requestedBranch, parsed),
                                 !.calls = Append(@, "fetchJson"),
                                 !.pc = "awaitMeta"]]
  /\ UNCHANGED <<now, containers>>

\* the size gate letting a repository of exactly the ceiling through no more
tooLarge_AtCeiling(sizeKB) == sizeKB * 1024 >= MAX_REPO_SIZE_BYTES

\* line 316
tooLarge(sizeKB) == sizeKB * 1024 > MAX_REPO_SIZE_BYTES

\* lines 304-326: fetchJson settles; the size gate; the call of fetchBuffer
MetaResponse(r, replies) ==
  /\ inv[r].pc = "awaitMeta"
  /\ \E reply \in replies :
       LET rec == [inv[r] EXCEPT !.meta = reply]
           repoMeta == fetchJson(reply)
       IN
       inv' = [inv EXCEPT ![r] =
         IF ~repoMeta.ok THEN error(rec, 404, "repoNotFound")
         ELSE IF tooLarge(sizeOrZero(repoMeta)) THEN error(rec, 413, "tooLarge")
         ELSE [rec EXCEPT !.zipFetches = <<rec.branch>>,
                          !.calls = Append(@, "fetchBuffer"),
                          !.pc = "awaitZip"]]
  /\ UNCHANGED <<rateLimitMap, now, log, containers>>

\* the no-files check with the comparison turned: a length is never < 0
noValidFiles_Never(files) == Len(files) < 0

\* line 421
noValidFiles(files) == Len(files) = 0

\* line 428
containerNameOf(owner, repo) ==
  substringTo(<<"g","h","-">> \o owner \o <<"-">> \o repo, 50)

\* lines 347-433, once zipBuffer is there: AdmZip, the extraction loop, the
\* no-files check and the call of Container.findOne
afterDownload(rec, zip) ==
  IF zip.kind = "corrupt"
  THEN error([rec EXCEPT !.calls = Append(@, "AdmZip")], 500, "archiveFailed")
  ELSE LET trace == extractTrace(zip.entries, 1, ExtractInit)
           result == trace[Len(trace)]
           extracted == [rec EXCEPT !.entries = zip.entries, !.trace = trace,
                                    !.files = result.files,
                                    !.totalSize = result.totalSize,
                                    !.skippedCount = result.skippedCount,
                                    !.calls = Append(@, "AdmZip")]
       IN IF noValidFiles(result.files)
          THEN error(extracted, 400, "noValidFiles")
          ELSE [extracted EXCEPT !.calls = Append(@, "findOne"),
                                 !.pc = "awaitFindOne"]

\* line 329: the fallback is tried when the branch fetched is 'main'
fallsBackToMaster(branch) == branch = Main

\* lines 326-345: what the handler does when the first fetchBuffer has settled
zipSettled(rec, zip) ==
  IF zip.kind = "error"
  THEN IF fallsBackToMaster(rec.branch)
       THEN [rec EXCEPT !.zipFetches = Append(rec.zipFetches, Master),
                        !.calls = Append(@, "fetchBuffer"),
                        !.pc = "awaitZipMaster"]
       ELSE error(rec, 404, "branchNotFound")
  ELSE afterDownload(rec, zip)

\* lines 331-339: what it does when the fetchBuffer of master.zip has settled
zipMasterSettled(rec, zip) ==
  IF zip.kind = "error"
  THEN error(rec, 404, "branchNotFound")
  ELSE afterDownload(rec, zip)

\* lines 326-345: the first fetchBuffer settles
ZipResponse(r, archives) ==
  /\ inv[r].pc = "awaitZip"
  /\ \E zip \in ZipOutcomes(archives) :
       inv' = [inv EXCEPT ![r] = zipSettled(inv[r], zip)]
  /\ UNCHANGED <<rateLimitMap, now, log, containers>>

\* lines 331-339: the fetchBuffer of master.zip settles
ZipMasterResponse(r, archives) ==
  /\ inv[r].pc = "awaitZipMaster"
  /\ \E zip \in ZipOutcomes(archives) :
       inv' = [inv EXCEPT ![r] = zipMasterSettled(inv[r], zip)]
  /\ UNCHANGED <<rateLimitMap, now, log, containers>>

\* lines 433-435: new RegExp(`^${containerName}$`, 'i') against a stored name;
\* of the characters the parser lets through only '.' is special in a pattern
nameMatches(containerName, name) ==
  /\ Len(name) = Len(containerName)
  /\ \A k \in 1..Len(name) :
       \/ containerName[k] = "."
       \/ toLowerCase(<<name[k]>>) = toLowerCase(<<containerName[k]>>)

\* the suffix added whatever the lookup found
finalNameOf_AlwaysSuffix(containerName, stored, suffix) ==
  containerName \o <<"-">> \o suffix

\* lines 432-438
finalNameOf(containerName, stored, suffix) ==
  IF \E k \in 1..Len(stored) : nameMatches(containerName, stored[k].name)
  THEN containerName \o <<"-">> \o suffix
  ELSE containerName

\* files.map with a callback that calls uploadToCloudinary again when the
\* first call has failed
uploadCalls_Retry(files) == [k \in 1..(2 * Len(files)) |-> "uploadToCloudinary"]

\* lines 448-450: files.map calls uploadToCloudinary once for each file
uploadCalls(files) == [k \in 1..Len(files) |-> "uploadToCloudinary"]

\* lines 433-472: Container.findOne settles; the container is built; files.map
\* calls the async callback for every file, and each callback runs up to its
\* await, that is, calls uploadToCloudinary; the loop awaits the first batch.
\* The archive entries are not read again and are dropped here.
FindOneResponse(r) ==
  /\ inv[r].pc = "awaitFindOne"
  /\ \E dbOk \in BOOLEAN, suffix \in Suffixes :
       LET rec == [inv[r] EXCEPT !.entries = <<>>, !.trace = <<>>] IN
       inv' = [inv EXCEPT ![r] =
         IF ~dbOk THEN error(rec, 500, "importFailed")
         ELSE [rec EXCEPT !.finalName =
                            finalNameOf(containerNameOf(rec.owner, rec.repo),
                                        containers, suffix),
                          !.upload = [k \in 1..Len(rec.files) |-> "pending"],
                          !.calls = @ \o uploadCalls(rec.files),
                          !.i = 0,
                          !.uploadedFiles = <<>>,
                          !.pc = "awaitBatch"]]
  /\ UNCHANGED <<rateLimitMap, now, log, containers>>

\* the callback of upload_stream (lines 250-257) runs for the upload of file k
UploadSettle(r) ==
  /\ inv[r].pc = "awaitBatch"
  /\ \E k \in 1..Len(inv[r].upload), ok \in BOOLEAN :
       /\ inv[r].upload[k] = "pending"
       /\ inv' = [inv EXCEPT ![r].upload[k] = IF ok THEN "ok" ELSE "failed"]
  /\ UNCHANGED <<rateLimitMap, now, log, containers>>

\* line 471: uploadPromises.slice(i, i + BATCH_SIZE), as indices from 1
batchOf(i, n) == { k \in 1..n : i < k /\ k <= i + BATCH_SIZE }

\* lines 451-460: what the callback returns for a file whose upload succeeded
\* (the store's publicId and url, and the mimetype, are left out)
uploadedFile(file) ==
  [originalName |-> file.filename, size |-> file.size,
   relativePath |-> file.relativePath]

\* results.filter(Boolean) of the batch that starts at i, keeping every result
RECURSIVE batchResults_KeepFailed(_, _, _, _)
batchResults_KeepFailed(files, upload, k, last) ==
  IF k > last THEN <<>>
  ELSE <<uploadedFile(files[k])>> \o batchResults_KeepFailed(files, upload, k + 1, last)

\* lines 472-473: results.filter(Boolean), for the promises k..last
\* the results of a batch in the reverse of the order of its promises
RECURSIVE batchResults_Reversed(_, _, _, _)
batchResults_Reversed(files, upload, k, last) ==
  IF k > last THEN <<>>
  ELSE batchResults_Reversed(files, upload, k + 1, last)
       \o (IF upload[k] = "ok" THEN <<uploadedFile(files[k])>> ELSE <<>>)

RECURSIVE batchResults(_, _, _, _)
batchResults(files, upload, k, last) ==
  IF k > last THEN <<>>
  ELSE (IF upload[k] = "ok" THEN <<uploadedFile(files[k])>> ELSE <<>>)
       \o batchResults(files, upload, k + 1, last)

\* the zero-success check with the comparison turned: a length is never < 0
noUploads_Never(uploadedFiles) == Len(uploadedFiles) < 0

\* line 476
noUploads(uploadedFiles) == Len(uploadedFiles) = 0

Min(a, b) == IF a <= b THEN a ELSE b

\* the loop going on as soon as one promise of the batch has settled
batchSettled_Any(upload, i) ==
  \E k \in batchOf(i, Len(upload)) : upload[k] # "pending"

\* line 472: await Promise.all(batch) returns when every promise of the batch
\* has settled (none of them rejects, lines 449-464)
batchSettled(upload, i) ==
  \A k \in batchOf(i, Len(upload)) : upload[k] # "pending"

\* lines 472-481: Promise.all of the batch settles; the next batch is awaited,
\* or the loop ends: the zero-success check, and the call of container.save
BatchResume(r) ==
  /\ inv[r].pc = "awaitBatch"
  /\ LET rec == inv[r]
         n == Len(rec.files)
         done == rec.uploadedFiles
                   \o batchResults(rec.files, rec.upload, rec.i + 1,
                                   Min(rec.i + BATCH_SIZE, n))
         next == [rec EXCEPT !.uploadedFiles = done, !.i = rec.i + BATCH_SIZE]
     IN /\ batchSettled(rec.upload, rec.i)
        /\ inv' = [inv EXCEPT ![r] =
             IF next.i < n THEN next
             ELSE IF noUploads(done) THEN error(next, 500, "uploadFailed")
             ELSE [next EXCEPT !.calls = Append(@, "save"), !.pc = "awaitSave"]]
  /\ UNCHANGED <<rateLimitMap, now, log, containers>>

\* lines 486-502 (the fields the claims read)
created(rec) ==
  [error |-> "", containerName |-> rec.finalName,
   fileCount |-> Len(rec.uploadedFiles), skippedCount |-> rec.skippedCount,
   totalSize |-> rec.totalSize, branch |-> rec.branch]

\* Container.prototype.save, when it succeeds: the document joins the
\* collection (the metadata store is an append-only list of containers with a
\* lookup by name; it is the caller that looks for the name first)
save(stored, doc) == Append(stored, doc)

\* lines 481-506: container.save settles
SaveResponse(r) ==
  /\ inv[r].pc = "awaitSave"
  /\ \E dbOk \in BOOLEAN :
       IF dbOk
       THEN /\ containers' = save(containers,
                                  [name |-> inv[r].finalName,
                                   files |-> inv[r].uploadedFiles,
                                   by |-> r])
            /\ inv' = [inv EXCEPT ![r] = respond(inv[r], 201, created(inv[r]))]
       ELSE /\ containers' = containers
            /\ inv' = [inv EXCEPT ![r] = error(inv[r], 500, "importFailed")]
  /\ UNCHANGED <<rateLimitMap, now, log>>

(***************************************************************************)
(* Spec: one import, every kind of request, a few archives.                *)
(***************************************************************************)
\* the archives of the scenarios: no entry, only the root directory, one
\* file, the three-file repository, files the policy has to judge, entries
\* without a path, and MaxEntries admissible files
ScenarioArchives ==
  { <<>>,
    <<RootDir>>,
    <<RootDir, ReadmeMd>>,
    <<RootDir, ReadmeMd, SrcAppJs, NotesExe>>,
    <<RootDir, UpperExe, DotSh, TooBig>>,
    <<RootDir, DotDotDir, RootFile, EmptyFile>>,
    [k \in 1..MaxEntries |-> IF k % 2 = 1 THEN ReadmeMd ELSE SrcAppJs],
    \* header.size within the limit, getData() longer than the limit
    <<RootDir, Entry(<<"r","/","u">>, FALSE, 1, MAX_SINGLE_FILE_BYTES + 1)>>,
    \* r/s\c, r/s/c and, outside the root prefix r/, s/c
    <<RootDir, Backslash, Entry(<<"r","/","s","/","c">>, FALSE, 1, 1),
      Entry(<<"s","/","c">>, FALSE, 1, 1)>> }

\* a container stored before the import, of the name the import derives
StoredBefore ==
  [name |-> <<"G","H","-","o","-","r">>, files |-> <<>>, by |-> 0]

\* the rate-limit map is empty, or client "a" has used up its window
Init ==
  /\ now = 0
  /\ \/ /\ rateLimitMap = [ip \in Clients |-> NoEntry]
        /\ log = [ip \in Clients |-> <<>>]
     \/ /\ rateLimitMap = [ip \in Clients |->
                             IF ip = "a"
                             THEN [count |-> RATE_LIMIT_MAX,
                                   resetTime |-> RATE_LIMIT_WINDOW]
                             ELSE NoEntry]
        /\ log = [ip \in Clients |->
                    IF ip = "a" THEN [j \in 1..RATE_LIMIT_MAX |-> <<0, TRUE>>]
                    ELSE <<>>]
  /\ inv = [r \in Requests |-> IdleInvocation]
  /\ containers \in { <<>>, <<StoredBefore>> }

Next ==
  \/ \E r \in Requests : ImportStart(r, Clients, RequestUrls, RequestedBranches)
  \/ \E r \in Requests : MetaResponse(r, MetaOutcomes)
  \/ \E r \in Requests : ZipResponse(r, ScenarioArchives)
  \/ \E r \in Requests : ZipMasterResponse(r, ScenarioArchives)
  \/ \E r \in Requests : FindOneResponse(r)
  \/ \E r \in Requests : UploadSettle(r)
  \/ \E r \in Requests : BatchResume(r)
  \/ \E r \in Requests : SaveResponse(r)

Spec == Init /\ [][Next]_vars

(***************************************************************************)
(* SpecArchive: one import of github.com/o/r.git/tree/dev, every archive   *)
(* of at most MaxEntries entries.  The branch is not 'main', so the fetch  *)
(* of master.zip is never made and its action is left out.                 *)
(***************************************************************************)
NextArchive ==
  \/ \E r \in Requests : ImportStart(r, {"a"}, {TreeDevUrl}, {<<>>})
  \/ \E r \in Requests : MetaResponse(r, {MetaReply("ok", 200, TRUE, TRUE, 1)})
  \/ \E r \in Requests : ZipResponse(r, AllArchives)
  \/ \E r \in Requests : FindOneResponse(r)
  \/ \E r \in Requests : UploadSettle(r)
  \/ \E r \in Requests : BatchResume(r)
  \/ \E r \in Requests : SaveResponse(r)

SpecArchive == InitRate /\ [][NextArchive]_vars

(***************************************************************************)
(* fetchBuffer (github.js:133-170), step by step.  A call of fetchBuffer   *)
(* by the handler is a record: the request that is out (phase "requested", *)
(* url the address asked, hops the redirects followed so far, counted up   *)
(* to MaxHops), the response whose body is being read (phase "open":       *)
(* chunks, totalSize, and destroyed once response.destroy() was called)    *)
(* and the promise (settled, reason).  The redirect of line 146 passes the *)
(* inner promise's outcome to the outer one, so the chain is one record.   *)
(* A destroyed response is not assumed silent: its listeners may still be  *)
(* called.                                                                 *)
(***************************************************************************)
\* redirects counted
MaxHops == 6
\* 'data' events of one response
MaxChunks == 3

NewFetch ==
  [phase |-> "requested", url |-> "archive", hops |-> 0, chunks |-> <<>>,
   totalSize |-> 0, events |-> 0, destroyed |-> FALSE,
   settled |-> "pending", reason |-> ""]

\* what the archive service answers to a request: a status code and, maybe, a
\* Location header
FetchReplies ==
  { [statusCode |-> 302, location |-> "x"], [statusCode |-> 302, location |-> "y"],
    [statusCode |-> 304, location |-> ""], [statusCode |-> 404, location |-> ""],
    [statusCode |-> 200, location |-> ""] }

\* chunk.length: half the ceiling, and a byte more than half
ChunkLengths ==
  { MAX_REPO_SIZE_BYTES \div 2, MAX_REPO_SIZE_BYTES \div 2 + 1 }

\* the archives a downloaded buffer may hold
FetchArchives == { <<RootDir>>, <<RootDir, ReadmeMd>> }

\* resolve and reject of a promise: the first call settles it, later calls do
\* nothing
resolve(f) == IF f.settled = "pending" THEN [f EXCEPT !.settled = "resolved"] ELSE f
reject(f, reason) ==
  IF f.settled = "pending" THEN [f EXCEPT !.settled = "rejected", !.reason = reason]
  ELSE f

\* lines 143-151: the callback of proto.get.  With a response that is no
\* redirect the chain of requests is over: its address and depth are read no
\* more
onResponse(f, reply) ==
  IF reply.statusCode >= 300 /\ reply.statusCode < 400 /\ reply.location # ""
  THEN [f EXCEPT !.url = reply.location, !.hops = Min(@ + 1, MaxHops)]
  ELSE IF reply.statusCode # 200
       THEN [reject(f, "http") EXCEPT !.phase = "closed", !.url = "", !.hops = 0]
       ELSE [f EXCEPT !.phase = "open", !.url = "", !.hops = 0]

\* the 'data' listener buffering the chunk before it looks at the total
onData_PushFirst(f, len) ==
  LET total == f.totalSize + len
      g == [f EXCEPT !.totalSize = total, !.events = @ + 1,
                     !.chunks = Append(@, len)]
  IN IF total > MAX_REPO_SIZE_BYTES
     THEN [reject(g, "size") EXCEPT !.destroyed = TRUE]
     ELSE g

\* lines 156-164: the 'data' listener
onData(f, len) ==
  LET total == f.totalSize + len
      g == [f EXCEPT !.totalSize = total, !.events = @ + 1]
  IN IF total > MAX_REPO_SIZE_BYTES
     THEN [reject(g, "size") EXCEPT !.destroyed = TRUE]
     ELSE [g EXCEPT !.chunks = Append(@, len)]

\* line 166: the 'end' listener
onEnd(f) == [resolve(f) EXCEPT !.phase = "closed"]

\* lines 167 and 168: the 'error' listeners of the response and of the request
onError(f) == [reject(f, "transport") EXCEPT !.phase = "closed", !.url = "", !.hops = 0]

\* the j-th fetchBuffer call of the handler; it has no record before its first
\* event
fetchOf(rec, j) == IF j <= Len(rec.fetch) THEN rec.fetch[j] ELSE NewFetch

\* an event has taken the j-th call to f; if that settles its promise, the
\* handler, which awaits it (line 326 or 331), goes on, with the buffer zip
\* when the promise resolved
resumed(rec, j, f, zip) ==
  LET rec2 == [rec EXCEPT !.fetch = IF j > Len(@) THEN Append(@, f)
                                   ELSE [@ EXCEPT ![j] = f]]
      outcome == IF f.settled = "resolved" THEN zip ELSE FetchFailed
  IN IF fetchOf(rec, j).settled # "pending" \/ f.settled = "pending" THEN rec2
     ELSE IF rec.pc = "awaitZip" THEN zipSettled(rec2, outcome)
          ELSE zipMasterSettled(rec2, outcome)

\* the archive service answers the request that is out
FetchResponse(r) ==
  /\ \E j \in 1..Len(inv[r].zipFetches), reply \in FetchReplies :
       LET f == fetchOf(inv[r], j) IN
       /\ f.phase = "requested"
       /\ inv' = [inv EXCEPT ![r] = resumed(inv[r], j, onResponse(f, reply), FetchFailed)]
       /\ inv' # inv
  /\ UNCHANGED <<rateLimitMap, now, log, containers>>

\* the request fails
FetchRequestError(r) ==
  /\ \E j \in 1..Len(inv[r].zipFetches) :
       LET f == fetchOf(inv[r], j) IN
       /\ f.phase = "requested"
       /\ inv' = [inv EXCEPT ![r] = resumed(inv[r], j, onError(f), FetchFailed)]
  /\ UNCHANGED <<rateLimitMap, now, log, containers>>

\* a chunk of the body arrives
FetchData(r) ==
  /\ \E j \in 1..Len(inv[r].zipFetches), len \in ChunkLengths :
       LET f == fetchOf(inv[r], j) IN
       /\ f.phase = "open"
       /\ f.events < MaxChunks
       /\ inv' = [inv EXCEPT ![r] = resumed(inv[r], j, onData(f, len), FetchFailed)]
  /\ UNCHANGED <<rateLimitMap, now, log, containers>>

\* the body ends
FetchEnd(r, archives) ==
  /\ \E j \in 1..Len(inv[r].zipFetches),
        zip \in {CorruptZip} \cup {ZipOf(a) : a \in archives} :
       LET f == fetchOf(inv[r], j) IN
       /\ f.phase = "open"
       /\ inv' = [inv EXCEPT ![r] = resumed(inv[r], j, onEnd(f), zip)]
  /\ UNCHANGED <<rateLimitMap, now, log, containers>>

\* the response fails
FetchBodyError(r) ==
  /\ \E j \in 1..Len(inv[r].zipFetches) :
       LET f == fetchOf(inv[r], j) IN
       /\ f.phase = "open"
       /\ inv' = [inv EXCEPT ![r] = resumed(inv[r], j, onError(f), FetchFailed)]
  /\ UNCHANGED <<rateLimitMap, now, log, containers>>

(***************************************************************************)
(* SpecFetch: one import, the archive fetched step by step.  SpecFetchLive *)
(* adds what the claims about termination assume: every request gets its   *)
(* response or fails, every body that is being read ends or fails, every   *)
(* upload and every database call settles.                                 *)
(***************************************************************************)
NextFetch ==
  \/ \E r \in Requests : ImportStart(r, {"a"}, {<<"x">>, PlainUrl, TreeDevUrl}, {<<>>})
  \/ \E r \in Requests : MetaResponse(r, MetaOutcomes)
  \/ \E r \in Requests : FetchResponse(r)
  \/ \E r \in Requests : FetchRequestError(r)
  \/ \E r \in Requests : FetchData(r)
  \/ \E r \in Requests : FetchEnd(r, FetchArchives)
  \/ \E r \in Requests : FetchBodyError(r)
  \/ \E r \in Requests : FindOneResponse(r)
  \/ \E r \in Requests : UploadSettle(r)
  \/ \E r \in Requests : BatchResume(r)
  \/ \E r \in Requests : SaveResponse(r)

SpecFetch == Init /\ [][NextFetch]_vars

SpecFetchLive ==
  /\ SpecFetch
  /\ \A r \in Requests :
       /\ WF_vars(MetaResponse(r, MetaOutcomes))
       /\ WF_vars(FetchResponse(r) \/ FetchRequestError(r))
       /\ WF_vars(FetchEnd(r, FetchArchives) \/ FetchBodyError(r))
       /\ WF_vars(FindOneResponse(r))
       /\ WF_vars(UploadSettle(r))
       /\ WF_vars(BatchResume(r))
       /\ WF_vars(SaveResponse(r))

(***************************************************************************)
(* SpecNames: imports of github.com/o/r one after the other, each request  *)
(* arriving after the one before was answered.                             *)
(***************************************************************************)
\* requests made
MaxImports == 3

\* the next POST /import arrives
NextImport(r) ==
  /\ inv[r].pc = "done"
  /\ CallsLogged < MaxImports
  /\ inv' = [inv EXCEPT ![r] = IdleInvocation]
  /\ UNCHANGED <<rateLimitMap, now, log, containers>>

\* the collection is empty, or holds a container named gh-o-rzx
InitNames ==
  /\ rateLimitMap = [ip \in Clients |-> NoEntry]
  /\ now = 0
  /\ log = [ip \in Clients |-> <<>>]
  /\ inv = [r \in Requests |-> IdleInvocation]
  /\ containers \in { <<>>,
                       << [name |-> <<"g","h","-","o","-","r","z","x">>,
                           files |-> <<>>, by |-> 0] >> }

\* the imports are of github.com/o/r and of github.com/o/r.x
NextNames ==
  \/ \E r \in Requests : NextImport(r)
  \/ \E r \in Requests :
        ImportStart(r, Clients, {PlainUrl, PlainUrl \o <<".", "x">>}, {<<>>})
  \/ \E r \in Requests : MetaResponse(r, {MetaReply("ok", 200, TRUE, TRUE, 1)})
  \/ \E r \in Requests : ZipResponse(r, {<<RootDir, ReadmeMd>>})
  \/ \E r \in Requests : ZipMasterResponse(r, {<<RootDir, ReadmeMd>>})
  \/ \E r \in Requests : FindOneResponse(r)
  \/ \E r \in Requests : UploadSettle(r)
  \/ \E r \in Requests : BatchResume(r)
  \/ \E r \in Requests : SaveResponse(r)

SpecNames == InitNames /\ [][NextNames]_vars

(***************************************************************************)
(* SpecParse: parseGitHubUrl applied to the repoUrl of a request, for      *)
(* every URL made of blanks, a protocol, github.com/ and two names.        *)
(***************************************************************************)
\* names the pattern of line 64 lets through
ParseNames ==
  { <<"o">>, <<"A", "-", "1">>, <<"_", ".">>, DotGit,
    <<"r">> \o DotGit, Tree }

Blanks == { <<>>, <<" ">> }
Protocols == { <<>>, Http, Https }

\* lines 33-34: [https://]github.com/owner/repo, blanks around it
RepoUrlOf(pre, protocol, owner, repo, post) ==
  pre \o protocol \o GitHubHost \o owner \o <<"/">> \o repo \o post

\* lines 57-61: what follows owner/repo, with the segments after /tree/;
\* third tells whether "tree" is the third segment of the path
TreeCases ==
  { [text |-> <<"/">> \o Tree \o <<"/">> \o Dev, segments |-> <<Dev>>, third |-> TRUE],
    [text |-> <<"/">> \o Tree \o <<"/","a","/","b">>,
     segments |-> << <<"a">>, <<"b">> >>, third |-> TRUE],
    [text |-> <<"/">> \o Tree \o <<"/","a","/","/","b","/">>,
     segments |-> << <<"a">>, <<"b">> >>, third |-> TRUE],
    [text |-> <<"/","x","/">> \o Tree \o <<"/">> \o Dev,
     segments |-> <<Dev>>, third |-> FALSE] }

\* lines 43-52: a host and a path, with the non-empty segments of the path
PathCases ==
  { [host |-> h, text |-> c[1], segments |-> c[2]] :
      h \in { GitHubHost, <<"g", "/">> },
      c \in { << <<>>, <<>> >>,
              << <<"o">>, << <<"o">> >> >>,
              << <<"o", "/", "/">>, << <<"o">> >> >>,
              << <<"o", "/", "/", "r">>, << <<"o">>, <<"r">> >> >>,
              << <<"o", "!", "/", "r">>, << <<"o", "!">>, <<"r">> >> >>,
              << <<"o", "/", "r", " ", "s">>, << <<"o">>, <<"r", " ", "s">> >> >>,
              << <<"o", "/">> \o DotGit, << <<"o">>, DotGit >> >>,
              << <<"o", "/", "r">> \o DotGit \o DotGit \o <<"/", "x">>,
                 << <<"o">>, <<"r">> \o DotGit \o DotGit, <<"x">> >> >> } }

ParseInputs ==
  { RepoUrlOf(pre, protocol, owner, repo, post) :
      pre \in Blanks, protocol \in Protocols,
      owner \in ParseNames, repo \in ParseNames, post \in Blanks }
  \cup { RepoUrlOf(<<>>, protocol, owner, repo, c.text) :
            protocol \in Protocols, owner \in ParseNames, repo \in ParseNames,
            c \in TreeCases }
  \cup { pre \o protocol \o c.host \o c.text :
            pre \in Blanks, protocol \in Protocols, c \in PathCases }

NextParse ==
  \E r \in Requests : ImportStart(r, {"a"}, ParseInputs, {<<>>})

SpecParse == InitRate /\ [][NextParse]_vars

(***************************************************************************)
(* SpecFiles: POST /:id/files of routes/containers.js, on a collection of  *)
(* one container that is read-only or not and has an admin password.  A    *)
(* request carries an id, an x-admin-password header (or none) and a       *)
(* multipart body whose file part is absent, named "file" or named         *)
(* otherwise.                                                              *)
(***************************************************************************)
MaxUploads == 2

IdleUpload ==
  [pc |-> "idle", id |-> 0, adminHeader |-> "", field |-> "none",
   originalName |-> "", status |-> 0, body |-> ""]

InitFiles ==
  /\ rateLimitMap = [ip \in Clients |-> NoEntry]
  /\ now = 0
  /\ log = [ip \in Clients |-> <<>>]
  /\ inv = [r \in Requests |-> IdleUpload]
  /\ \E readOnly \in BOOLEAN :
       containers = << [name |-> "box", readOnly |-> readOnly,
                        adminPassword |-> "apass", files |-> <<>>] >>

\* line 170: a request arrives and upload.single('file') reads its body; a
\* file part under another name is multer's "Unexpected field", which ends
\* the request before the handler
UploadStart(r) ==
  /\ inv[r].pc \in {"idle", "done"}
  /\ \A k \in 1..Len(containers) : Len(containers[k].files) < MaxUploads
  /\ \E id \in {1, 2}, adminHeader \in {"", "wrongpassword", "apass"},
        field \in {"none", "file", "files"}, originalName \in {"f", "g"} :
       LET rec == [IdleUpload EXCEPT !.id = id, !.adminHeader = adminHeader,
                                     !.field = field,
                                     !.originalName = originalName]
       IN inv' = [inv EXCEPT ![r] =
            IF field = "files"
            THEN [rec EXCEPT !.pc = "done", !.status = 500,
                             !.body = "unexpectedField"]
            ELSE [rec EXCEPT !.pc = "awaitFind"]]
  /\ UNCHANGED <<rateLimitMap, now, log, containers>>

\* lines 171-196: Container.findById settles; the file is pushed on the
\* document found and the document is saved
UploadFound(r) ==
  /\ inv[r].pc = "awaitFind"
  /\ \E dbOk \in BOOLEAN :
       inv' = [inv EXCEPT ![r] =
         IF ~dbOk
         THEN [@ EXCEPT !.pc = "done", !.status = 500, !.body = "uploadFailed"]
         ELSE IF inv[r].id \notin 1..Len(containers)
         THEN [@ EXCEPT !.pc = "done", !.status = 404, !.body = "notFound"]
         ELSE IF inv[r].field = "none"
         THEN [@ EXCEPT !.pc = "done", !.status = 400, !.body = "noFile"]
         ELSE [@ EXCEPT !.pc = "awaitSave"]]
  /\ UNCHANGED <<rateLimitMap, now, log, containers>>

\* lines 196-213: container.save settles
UploadSaved(r) ==
  /\ inv[r].pc = "awaitSave"
  /\ \E dbOk \in BOOLEAN :
       IF dbOk
       THEN /\ containers' =
                 [containers EXCEPT ![inv[r].id].files =
                    Append(@, inv[r].originalName)]
            /\ inv' = [inv EXCEPT ![r].pc = "done", ![r].status = 201,
                                   ![r].body = "success"]
       ELSE /\ containers' = containers
            /\ inv' = [inv EXCEPT ![r].pc = "done", ![r].status = 500,
                                   ![r].body = "uploadFailed"]
  /\ UNCHANGED <<rateLimitMap, now, log>>

NextFiles ==
  \/ \E r \in Requests : UploadStart(r)
  \/ \E r \in Requests : UploadFound(r)
  \/ \E r \in Requests : UploadSaved(r)

SpecFiles == InitFiles /\ [][NextFiles]_vars

(***************************************************************************)
(* SpecRace: two invocations of POST /import at once, both of              *)
(* github.com/o/r.git/tree/dev, on an empty collection.  The handler is    *)
(* async: each await lets the other invocation run.                        *)
(***************************************************************************)
InitRace ==
  /\ rateLimitMap = [ip \in Clients |-> NoEntry]
  /\ now = 0
  /\ log = [ip \in Clients |-> <<>>]
  /\ inv = [r \in {1, 2} |-> IdleInvocation]
  /\ containers = <<>>

NextRace ==
  \/ \E r \in {1, 2} : ImportStart(r, {"a"}, {TreeDevUrl}, {<<>>})
  \/ \E r \in {1, 2} : MetaResponse(r, {MetaReply("ok", 200, TRUE, TRUE, 1)})
  \/ \E r \in {1, 2} : ZipResponse(r, {<<RootDir, ReadmeMd>>})
  \/ \E r \in {1, 2} : FindOneResponse(r)
  \/ \E r \in {1, 2} : UploadSettle(r)
  \/ \E r \in {1, 2} : BatchResume(r)
  \/ \E r \in {1, 2} : SaveResponse(r)

SpecRace == InitRace /\ [][NextRace]_vars

(***************************************************************************)
(* SpecQuota: the imports of one client, one after the other inside one    *)
(* window, each with any of its outcomes.                                  *)
(***************************************************************************)
\* the response is sent; the client's next request arrives
NextRequest(r) ==
  /\ inv[r].pc = "done"
  /\ CallsLogged < MaxCalls
  /\ inv' = [inv EXCEPT ![r] = IdleInvocation]
  /\ UNCHANGED <<rateLimitMap, now, log, containers>>

NextQuota ==
  \/ \E r \in Requests : NextRequest(r)
  \/ \E r \in Requests : ImportStart(r, {"a"}, {<<>>, <<"x">>, PlainUrl}, {<<>>})
  \/ \E r \in Requests : MetaResponse(r, MetaOutcomes)
  \/ \E r \in Requests : ZipResponse(r, {<<RootDir, ReadmeMd>>})
  \/ \E r \in Requests : ZipMasterResponse(r, {<<RootDir, ReadmeMd>>})
  \/ \E r \in Requests : FindOneResponse(r)
  \/ \E r \in Requests : UploadSettle(r)
  \/ \E r \in Requests : BatchResume(r)
  \/ \E r \in Requests : SaveResponse(r)

SpecQuota == InitRate /\ [][NextQuota]_vars

(***************************************************************************)
(* SpecLinks: the Discord bot on one channel and one container.  A slash   *)
(* command or a message with attachments is handled in steps between the   *)
(* awaits of Container.findById and container.verifyAdminPassword; the     *)
(* container's readOnly flag is changed from outside the bot.  link is     *)
(* channelLinks[channelId] ("none" when the channel is not linked, "" for  *)
(* a link with adminPassword null); accepted is history: the passwords     *)
(* verifyAdminPassword has accepted; wasReadOnly: the flag as a write      *)
(* found it.                                                               *)
(***************************************************************************)
MaxWrites == 2

IdleBot ==
  [pc |-> "idle", command |-> "", given |-> "", wasReadOnly |-> FALSE,
   link |-> "none", accepted |-> {}, reply |-> ""]

InitLinks ==
  /\ rateLimitMap = [ip \in Clients |-> NoEntry]
  /\ now = 0
  /\ log = [ip \in Clients |-> <<>>]
  /\ inv = [r \in Requests |-> IdleBot]
  /\ \E readOnly \in BOOLEAN :
       containers = << [name |-> "box", readOnly |-> readOnly,
                        adminPassword |-> "apass", writes |-> 0] >>

\* lines 204-210, 236-238, 330, 441, 537-545: a command or a message with
\* attachments arrives and Container.findById is called
BotCommand(r) ==
  /\ inv[r].pc \in {"idle", "done"}
  /\ containers[1].writes < MaxWrites
  /\ \E command \in {"link", "text", "createclipboard", "attachment"},
        given \in {"", "apass", "guess"} :
       /\ command # "link" => (given = "" /\ inv[r].link # "none")
       /\ inv' = [inv EXCEPT ![r].pc = "awaitFind", ![r].command = command,
                              ![r].given = given, ![r].wasReadOnly = FALSE,
                              ![r].reply = ""]
  /\ UNCHANGED <<rateLimitMap, now, log, containers>>

\* lines 238-262, 330-367, 441-466, 545-558: findById has settled.  /link
\* verifies the password when the container is read-only and a password was
\* given, and stores the link otherwise; a write is refused when the
\* container is read-only and the link has no password
BotFound(r) ==
  /\ inv[r].pc = "awaitFind"
  /\ LET rec == inv[r]
         container == containers[1]
     IN IF rec.command = "link"
        THEN /\ containers' = containers
             /\ inv' = [inv EXCEPT ![r] =
                  IF container.readOnly /\ rec.given # ""
                  THEN [rec EXCEPT !.pc = "awaitVerify"]
                  ELSE [rec EXCEPT !.pc = "done", !.link = rec.given,
                                   !.reply = "linked"]]
        ELSE IF container.readOnly /\ rec.link = ""
        THEN /\ containers' = containers
             /\ inv' = [inv EXCEPT ![r].pc = "done", ![r].reply = "noWriteAccess"]
        ELSE /\ containers' = [containers EXCEPT ![1].writes = @ + 1]
             /\ inv' = [inv EXCEPT ![r].pc = "done",
                                    ![r].wasReadOnly = container.readOnly,
                                    ![r].reply = "written"]
  /\ UNCHANGED <<rateLimitMap, now, log>>

\* lines 246-262: verifyAdminPassword has settled
BotVerified(r) ==
  /\ inv[r].pc = "awaitVerify"
  /\ LET rec == inv[r]
         isAdmin == rec.given = containers[1].adminPassword
     IN inv' = [inv EXCEPT ![r] =
          IF ~isAdmin
          THEN [rec EXCEPT !.pc = "done", !.reply = "invalidAdminPassword"]
          ELSE [rec EXCEPT !.pc = "done", !.link = rec.given,
                           !.accepted = @ \cup {rec.given},
                           !.reply = "linked"]]
  /\ UNCHANGED <<rateLimitMap, now, log, containers>>

\* the owner switches the container's readOnly flag
SetReadOnly ==
  /\ \E readOnly \in BOOLEAN :
       /\ readOnly # containers[1].readOnly
       /\ containers' = [containers EXCEPT ![1].readOnly = readOnly]
  /\ UNCHANGED <<rateLimitMap, now, log, inv>>

NextLinks ==
  \/ \E r \in Requests : BotCommand(r)
  \/ \E r \in Requests : BotFound(r)
  \/ \E r \in Requests : BotVerified(r)
  \/ SetReadOnly

SpecLinks == InitLinks /\ [][NextLinks]_vars

(***************************************************************************)
(* SpecCleanup: cleanupUnusedContainers on a collection of two containers, *)
(* one with a file, while requests touch containers and time passes.  The  *)
(* unit of time is a day.  deletedAt is history: the day the container was *)
(* deleted, -1 while it is there.                                          *)
(***************************************************************************)
\* line 631: the 30 days, scaled
RetentionDays == 1

InitCleanup ==
  /\ rateLimitMap = [ip \in Clients |-> NoEntry]
  /\ now = 0
  /\ log = [ip \in Clients |-> <<>>]
  /\ inv = [r \in Requests |->
              [pc |-> "idle", staleContainers |-> <<>>, k |-> 0, file |-> 0]]
  /\ containers = << [name |-> "box", lastAccessed |-> 0, files |-> 1,
                       deletedAt |-> -1],
                     [name |-> "bag", lastAccessed |-> 0, files |-> 0,
                       deletedAt |-> -1] >>

\* where the loop of lines 641-660 stands once it is at container k of the
\* list: at its first file, at its delete, or past the end
atContainer(rec, k) ==
  IF k > Len(rec.staleContainers)
  THEN [rec EXCEPT !.pc = "done", !.k = k, !.file = 0]
  ELSE IF containers[rec.staleContainers[k]].files = 0
  THEN [rec EXCEPT !.pc = "awaitDelete", !.k = k, !.file = 0]
  ELSE [rec EXCEPT !.pc = "awaitDestroy", !.k = k, !.file = 1]

\* lines 626-641: the cron job fires; Container.find returns the containers
\* last accessed before the cutoff
CleanupStart(r) ==
  /\ inv[r].pc \in {"idle", "done"}
  /\ LET cutoffDate == now - RetentionDays
         stale == SelectSeq([c \in 1..Len(containers) |-> c],
                            LAMBDA c : /\ containers[c].deletedAt = -1
                                       /\ containers[c].lastAccessed < cutoffDate)
     IN inv' = [inv EXCEPT ![r] =
                  atContainer([inv[r] EXCEPT !.staleContainers = stale], 1)]
  /\ UNCHANGED <<rateLimitMap, now, log, containers>>

\* lines 645-656: the deletion of one file settles, or throws and is caught
DestroyFile(r) ==
  /\ inv[r].pc = "awaitDestroy"
  /\ \E ok \in BOOLEAN :
       LET rec == inv[r] IN
       inv' = [inv EXCEPT ![r] =
         IF rec.file < containers[rec.staleContainers[rec.k]].files
         THEN [rec EXCEPT !.file = @ + 1]
         ELSE [rec EXCEPT !.pc = "awaitDelete"]]
  /\ UNCHANGED <<rateLimitMap, now, log, containers>>

\* lines 659-669: Container.findByIdAndDelete settles; when it throws, the
\* catch of line 668 ends the run
DeleteContainer(r) ==
  /\ inv[r].pc = "awaitDelete"
  /\ \E dbOk \in BOOLEAN :
       LET rec == inv[r]
           id == rec.staleContainers[rec.k]
       IN IF dbOk
          THEN /\ containers' =
                    [containers EXCEPT ![id].deletedAt =
                       IF @ = -1 THEN now ELSE @]
               /\ inv' = [inv EXCEPT ![r] = atContainer(rec, rec.k + 1)]
          ELSE /\ containers' = containers
               /\ inv' = [inv EXCEPT ![r].pc = "done"]
  /\ UNCHANGED <<rateLimitMap, now, log>>

\* containers.js 121-123 (and the like in the other routes): a request sets
\* lastAccessed of a container to the present and saves it
Touch ==
  /\ \E c \in 1..Len(containers) :
       /\ containers[c].deletedAt = -1
       /\ containers[c].lastAccessed < now
       /\ containers' = [containers EXCEPT ![c].lastAccessed = now]
  /\ UNCHANGED <<rateLimitMap, now, log, inv>>

NextCleanup ==
  \/ \E r \in Requests : CleanupStart(r)
  \/ \E r \in Requests : DestroyFile(r)
  \/ \E r \in Requests : DeleteContainer(r)
  \/ Touch
  \/ Tick

SpecCleanup == InitCleanup /\ [][NextCleanup]_vars

(***************************************************************************)
(* SpecConnect: connectWithRetry, called once when the server module is    *)
(* loaded.  attempts, outcomes, listening and cronJobs are history: the    *)
(* calls of mongoose.connect, what came of each, and the times the server  *)
(* began to listen and initCronJobs ran.                                   *)
(***************************************************************************)
MAX_RETRIES == 5

\* line 851: connectWithRetry() has called mongoose.connect
InitConnect ==
  /\ rateLimitMap = [ip \in Clients |-> NoEntry]
  /\ now = 0
  /\ log = [ip \in Clients |-> <<>>]
  /\ inv = [r \in Requests |->
              [pc |-> "awaitConnect", retries |-> MAX_RETRIES, attempts |-> 1,
               outcomes |-> <<>>, listening |-> 0, cronJobs |-> 0,
               exitCode |-> 0]]
  /\ containers = <<>>

\* the retry made whatever the number of retries left
retriesLeft_Always(retries) == TRUE

\* line 823
retriesLeft(retries) == retries > 1

\* lines 812-831: mongoose.connect settles.  When it resolves server.listen
\* is called, which returns or throws; what is thrown, by either, is caught:
\* the retry timer is set or the process exits
ConnectSettled(r) ==
  /\ inv[r].pc = "awaitConnect"
  /\ \E outcome \in {"listenCalled", "listenThrew", "connectFailed"} :
       LET rec == [inv[r] EXCEPT !.outcomes = Append(@, outcome)] IN
       inv' = [inv EXCEPT ![r] =
         IF outcome = "listenCalled" THEN [rec EXCEPT !.pc = "awaitListening"]
         ELSE IF retriesLeft(rec.retries) THEN [rec EXCEPT !.pc = "awaitTimer"]
         ELSE [rec EXCEPT !.pc = "exited", !.exitCode = 1]]
  /\ UNCHANGED <<rateLimitMap, now, log, containers>>

\* lines 825-826: RETRY_DELAY has passed; connectWithRetry(retries - 1) calls
\* mongoose.connect
RetryTimer(r) ==
  /\ inv[r].pc = "awaitTimer"
  /\ inv' = [inv EXCEPT ![r].pc = "awaitConnect", ![r].retries = @ - 1,
                         ![r].attempts = @ + 1]
  /\ UNCHANGED <<rateLimitMap, now, log, containers>>

\* lines 816-820: the server listens and the callback runs initCronJobs, or
\* the port cannot be bound and the server emits 'error'
Listening(r) ==
  /\ inv[r].pc = "awaitListening"
  /\ \E bound \in BOOLEAN :
       inv' = [inv EXCEPT ![r] =
         IF bound
         THEN [@ EXCEPT !.pc = "serving", !.listening = @ + 1, !.cronJobs = @ + 1]
         ELSE [@ EXCEPT !.pc = "listenError"]]
  /\ UNCHANGED <<rateLimitMap, now, log, containers>>

NextConnect ==
  \/ \E r \in Requests : ConnectSettled(r)
  \/ \E r \in Requests : RetryTimer(r)
  \/ \E r \in Requests : Listening(r)

SpecConnect == InitConnect /\ [][NextConnect]_vars

(***************************************************************************)
(* C1.  For one client the first five checks made inside one window are    *)
(* allowed, every further check inside that window is denied, and the      *)
(* first check after the window has elapsed is allowed again (and opens    *)
(* the next window).  The window of a check is found from the history of   *)
(* check times alone: it is opened by the first check, or by the first     *)
(* check made later than window-length after the opening of the previous   *)
(* window.                                                                 *)
(***************************************************************************)
RECURSIVE OpenerIdx(_, _)
OpenerIdx(l, j) ==
  IF j = 1 THEN 1
  ELSE LET o == OpenerIdx(l, j - 1) IN
       IF l[j][1] > l[o][1] + RATE_LIMIT_WINDOW THEN j ELSE o

C1_FirstFivePerWindow ==
  \A c \in Clients : \A j \in 1..Len(log[c]) :
     log[c][j][2] <=> (j - OpenerIdx(log[c], j) + 1 <= 5)

\* six checks in one window (five allowed, the sixth denied), the seventh
\* after the window elapsed, allowed
C1_Witness ==
  \E c \in Clients :
     /\ Len(log[c]) = 7
     /\ \A j \in 1..6 : log[c][j][1] <= log[c][1][1] + RATE_LIMIT_WINDOW
     /\ \A j \in 1..5 : log[c][j][2]
     /\ ~log[c][6][2]
     /\ log[c][7][1] > log[c][1][1] + RATE_LIMIT_WINDOW
     /\ log[c][7][2]


(***************************************************************************)
(* What the claims speak of.                                               *)
(***************************************************************************)
\* the invocation asked for a branch: in the body, or as /tree/{branch}
ExplicitBranch(rec) ==
  rec.requestedBranch # <<>> \/ rec.repoUrl \in {TreeMainUrl, TreeDevUrl}

\* the uploads of an invocation that are in flight
InFlight(rec) == { k \in 1..Len(rec.upload) : rec.upload[k] = "pending" }

\* the elements of a finite set of numbers, ascending
RECURSIVE Ascending(_)
Ascending(S) ==
  IF S = {} THEN <<>>
  ELSE LET m == CHOOSE x \in S : \A y \in S : x <= y IN <<m>> \o Ascending(S \ {m})

\* the admitted files whose upload succeeded, as they are to be persisted
SuccessesOf(rec) ==
  LET ok == Ascending({ k \in 1..Len(rec.upload) : rec.upload[k] = "ok" }) IN
  [j \in 1..Len(ok) |->
     [originalName |-> rec.files[ok[j]].filename,
      size |-> rec.files[ok[j]].size,
      relativePath |-> rec.files[ok[j]].relativePath]]

\* the containers an invocation has persisted
PersistedBy(r) == { k \in 1..Len(containers) : containers[k].by = r }

IsSeparator(c) == c = "/" \/ c = "\\"

\* the path has a '..' segment, '\' counting as a separator
HasDotDotSegment(p) ==
  \E k \in 1..(Len(p) - 1) :
     /\ p[k] = "." /\ p[k + 1] = "."
     /\ k = 1 \/ IsSeparator(p[k - 1])
     /\ k + 1 = Len(p) \/ IsSeparator(p[k + 2])

\* the path is absolute: a leading separator, or a drive-letter prefix
IsAbsolute(p) ==
  \/ Len(p) >= 1 /\ IsSeparator(p[1])
  \/ Len(p) >= 2 /\ IsLetter(p[1]) /\ p[2] = ":"

\* the root-stripped path of entry k of the archive being extracted
RelativePath(rec, k) == relativePathOf(rec.entries[k], rootPrefixOf(rec.entries))

\* entry k is a file with a path, and passes the path, extension and size checks
PassesChecks(rec, k) ==
  LET e == rec.entries[k]
      p == RelativePath(rec, k)
  IN /\ ~e.isDirectory
     /\ p # <<>>
     /\ ~IsAbsolute(p) /\ ~HasDotDotSegment(p)
     /\ ~isBlockedFile(normalizeSeparators(p))
     /\ e.size <= MAX_SINGLE_FILE_BYTES

\* entry k is admissible: it passes the checks and is not empty
Admissible(rec, k) == PassesChecks(rec, k) /\ rec.entries[k].dataLen > 0

\* entry k was rejected: it left the files as they were and added one to
\* skippedCount
Rejected(rec, k) ==
  /\ rec.trace[k + 1].files = rec.trace[k].files
  /\ rec.trace[k + 1].skippedCount = rec.trace[k].skippedCount + 1

\* the name ends in a blocked extension, in any letter case
EndsInBlockedExtension(name) ==
  \E ext \in BLOCKED_EXTENSIONS : endsWith(toLowerCase(name), ext)

(***************************************************************************)
(* C2.  Uploads are issued in batches of BATCH_SIZE: never more than       *)
(* BATCH_SIZE uploads of an import are in flight, and no upload of a later *)
(* batch is in flight or settled while an upload of the batch the loop     *)
(* awaits is still in flight.                                              *)
(***************************************************************************)
C2_UploadsIssuedInBatches ==
  \A r \in Requests :
     /\ Cardinality(InFlight(inv[r])) <= BATCH_SIZE
     /\ \A j \in InFlight(inv[r]) :
          \A k \in 1..Len(inv[r].upload) :
             (j <= inv[r].i + BATCH_SIZE /\ k > inv[r].i + BATCH_SIZE)
                => inv[r].upload[k] = "notStarted"

(***************************************************************************)
(* C3.  An import that asked for a branch explicitly (also for "main")     *)
(* makes exactly one archive fetch; the master fallback is fetched only    *)
(* when no branch was asked for.                                           *)
(***************************************************************************)
C3_NoFallbackForExplicitBranch ==
  \A r \in Requests :
     ExplicitBranch(inv[r]) => Len(inv[r].zipFetches) <= 1

(***************************************************************************)
(* C4.  An import without a requested branch whose fetch of main failed    *)
(* and whose fetch of master succeeded answers 201 with repoInfo.branch =  *)
(* "master".                                                               *)
(***************************************************************************)
C4_FallbackReportsMaster ==
  \A r \in Requests :
     (/\ inv[r].status = 201
      /\ ~ExplicitBranch(inv[r])
      /\ inv[r].zipFetches = <<Main, Master>>)
        => inv[r].body.branch = Master

(***************************************************************************)
(* C5.  A failed upload never aborts the import: every admitted file has   *)
(* its upload started, whatever becomes of the others; what is persisted   *)
(* is exactly the files whose upload succeeded; and an import with at      *)
(* least one successful upload commits (201) with fileCount the number of  *)
(* successes.                                                              *)
(***************************************************************************)
\* the claim as made: the import commits whenever an upload succeeded
C5_CommitsWheneverOneSucceeded ==
  \A r \in Requests :
     (inv[r].pc = "done" /\ \E k \in 1..Len(inv[r].upload) : inv[r].upload[k] = "ok")
        => /\ inv[r].status = 201
           /\ inv[r].body.fileCount = Len(SuccessesOf(inv[r]))

\* C5 as amended: ... and an import with at least one successful upload goes
\* on to save a container holding exactly the successes; it commits (201)
\* with fileCount the number of successes if that save succeeds, and ends
\* with the 500 of the handler's catch, nothing persisted, if the save fails.
C5_UploadFailuresTolerated ==
  \A r \in Requests :
     LET rec == inv[r] IN
     /\ rec.pc \in {"awaitBatch", "awaitSave"} => Len(rec.upload) = Len(rec.files)
     /\ rec.pc = "awaitSave" => rec.uploadedFiles = SuccessesOf(rec)
     /\ \A c \in PersistedBy(r) : containers[c].files = SuccessesOf(rec)
     /\ (rec.pc = "done" /\ \E k \in 1..Len(rec.upload) : rec.upload[k] = "ok")
          => \/ /\ rec.status = 201
                /\ rec.body.fileCount = Len(SuccessesOf(rec))
                /\ Cardinality(PersistedBy(r)) = 1
             \/ /\ rec.status = 500
                /\ rec.body.error = "importFailed"
                /\ PersistedBy(r) = {}

\* committed although an upload of the first batch failed, with a success
\* in a later batch
C5_Witness ==
  \E r \in Requests :
     /\ inv[r].status = 201
     /\ Len(inv[r].upload) > BATCH_SIZE
     /\ \E k \in 1..BATCH_SIZE : inv[r].upload[k] = "failed"
     /\ \E k \in (BATCH_SIZE + 1)..Len(inv[r].upload) : inv[r].upload[k] = "ok"
     /\ inv[r].body.fileCount < Len(inv[r].files)

(***************************************************************************)
(* C6.  If every upload of an import fails (at least one file admitted),   *)
(* the import ends with a 500 error and persists no container.             *)
(***************************************************************************)
AllUploadsFailed(rec) ==
  /\ Len(rec.upload) >= 1
  /\ \A k \in 1..Len(rec.upload) : rec.upload[k] = "failed"

C6_AllUploadsFailedIs500 ==
  \A r \in Requests :
     AllUploadsFailed(inv[r])
        => /\ PersistedBy(r) = {}
           /\ inv[r].pc \in {"awaitBatch", "done"}
           /\ inv[r].pc = "done" => inv[r].status = 500

\* an import of more than one batch ended 500 with every upload failed
C6_Witness ==
  \E r \in Requests :
     /\ AllUploadsFailed(inv[r])
     /\ Len(inv[r].upload) > BATCH_SIZE
     /\ inv[r].pc = "done" /\ inv[r].status = 500

(***************************************************************************)
(* C7.  Extraction never admits more than MAX_FILE_COUNT entries, whatever *)
(* the archive; an entry that passes the path, extension and size checks   *)
(* when MAX_FILE_COUNT entries are admitted already adds exactly one to    *)
(* skippedCount and is not admitted.                                       *)
(***************************************************************************)
C7_AtMostMaxFileCount ==
  \A r \in Requests :
     LET rec == inv[r] IN
     /\ Len(rec.files) <= MAX_FILE_COUNT
     /\ \A c \in PersistedBy(r) : Len(containers[c].files) <= MAX_FILE_COUNT
     /\ \A k \in 1..Len(rec.trace) : Len(rec.trace[k].files) <= MAX_FILE_COUNT
     /\ \A k \in 1..Len(rec.entries) :
          (PassesChecks(rec, k) /\ Len(rec.trace[k].files) >= MAX_FILE_COUNT)
             => Rejected(rec, k)

\* an archive with an entry that passes the checks after MAX_FILE_COUNT were
\* admitted
C7_Witness ==
  \E r \in Requests :
     /\ inv[r].pc = "awaitFindOne"
     /\ \E k \in 1..Len(inv[r].entries) :
          /\ PassesChecks(inv[r], k)
          /\ Len(inv[r].trace[k].files) = MAX_FILE_COUNT
          /\ inv[r].entries[k].dataLen > 0

(***************************************************************************)
(* C8.  No file admitted or persisted by an import has a relative path     *)
(* with a '..' segment, a leading '/', a drive-letter prefix or a          *)
(* backslash; every file entry of the archive whose root-stripped path is  *)
(* absolute or has a '..' segment ('\' counting as '/') is rejected and    *)
(* counted in skippedCount.  (Directory entries are passed over before     *)
(* their path is looked at, line 366, and count nowhere.)                  *)
(***************************************************************************)
SafeRelativePath(p) ==
  /\ ~HasDotDotSegment(p)
  /\ ~IsAbsolute(p)
  /\ \A k \in 1..Len(p) : p[k] # "\\"

C9_NoBlockedExtensionPersisted ==
  \A c \in 1..Len(containers) :
     \A k \in 1..Len(containers[c].files) :
        /\ ~EndsInBlockedExtension(containers[c].files[k].relativePath)
        /\ ~EndsInBlockedExtension(containers[c].files[k].originalName)

(***************************************************************************)
(* C10.  When the archive is valid and none of its entries is admissible   *)
(* (also when it holds only directories, or nothing), the import ends with *)
(* a 400 error, starts no upload and persists no container.                *)
(***************************************************************************)
C10_NoAdmissibleEntriesIs400 ==
  \A r \in Requests :
     LET rec == inv[r] IN
     (/\ rec.trace # <<>>
      /\ \A k \in 1..Len(rec.entries) : ~Admissible(rec, k))
        => /\ rec.pc = "done"
           /\ rec.status = 400
           /\ rec.upload = <<>>
           /\ PersistedBy(r) = {}

\* an archive of directory entries only, answered 400
C10_Witness ==
  \E r \in Requests :
     /\ inv[r].status = 400
     /\ Len(inv[r].entries) >= 2
     /\ \A k \in 1..Len(inv[r].entries) : inv[r].entries[k].isDirectory

(***************************************************************************)
(* What the claims C11 and after speak of.                                 *)
(***************************************************************************)
\* how often the handler has called a function
Count(calls, name) == Cardinality({ k \in 1..Len(calls) : calls[k] = name })

Called(rec, name) == \E k \in 1..Len(rec.calls) : rec.calls[k] = name

\* the place of a step in the pipeline
StepRank(name) ==
  CASE name = "checkRateLimit" -> 1
    [] name = "parseGitHubUrl" -> 2
    [] name = "fetchJson" -> 3
    [] name = "fetchBuffer" -> 4
    [] name = "AdmZip" -> 5
    [] name = "findOne" -> 6
    [] name = "uploadToCloudinary" -> 7
    [] name = "save" -> 8

\* the invocation has made no network call and touched no store
NoOutboundCall(rec) ==
  /\ \A k \in 1..Len(rec.calls) : rec.calls[k] \in {"checkRateLimit", "parseGitHubUrl"}
  /\ rec.zipFetches = <<>>
  /\ rec.upload = <<>>

\* the rate limiter denied the invocation
Denied(rec) ==
  /\ rec.pc # "idle"
  /\ ~log[rec.clientIp][Len(log[rec.clientIp])][2]

\* the metadata service answered, and the answer is no metadata: a transport
\* error, a status other than 200, or a body that is not JSON
MetadataUnavailable(rec) ==
  /\ rec.meta # NoMeta
  /\ \/ rec.meta.transport = "error"
     \/ rec.meta.statusCode # 200
     \/ ~rec.meta.parses

\* the metadata service answered with metadata
MetadataRetrieved(rec) ==
  /\ rec.meta.transport = "ok" /\ rec.meta.statusCode = 200 /\ rec.meta.parses

\* the size (bytes) the metadata reports; nothing when the size is missing
ReportedBytes(rec) == IF rec.meta.hasSize THEN rec.meta.size * 1024 ELSE 0

\* nothing was fetched from the archive service, uploaded or persisted
NothingAfterMetadata(r) ==
  /\ inv[r].zipFetches = <<>>
  /\ ~Called(inv[r], "fetchBuffer")
  /\ ~Called(inv[r], "findOne")
  /\ inv[r].upload = <<>>
  /\ ~Called(inv[r], "uploadToCloudinary")
  /\ ~Called(inv[r], "save")
  /\ PersistedBy(r) = {}

(***************************************************************************)
(* C11.  The steps of one import run in order, each only after all earlier *)
(* ones succeeded: a rate-limit denial is answered 429 with no parse,      *)
(* fetch, upload or persist; a parse failure is answered 400 with no       *)
(* network call; the archive is fetched only after the metadata was        *)
(* retrieved and passed the size gate; uploads start only after the        *)
(* archive was opened and at least one entry admitted; the container is    *)
(* saved only after every upload has settled, one of them with success.    *)
(***************************************************************************)
C11_StepsInOrderAndGated ==
  \A r \in Requests :
     LET rec == inv[r] IN
     /\ \A j \in 1..Len(rec.calls) : \A k \in j..Len(rec.calls) :
          StepRank(rec.calls[j]) <= StepRank(rec.calls[k])
     /\ \A k \in 1..Len(rec.calls) :
          k > 1 /\ StepRank(rec.calls[k]) > StepRank(rec.calls[k - 1])
             => StepRank(rec.calls[k]) = StepRank(rec.calls[k - 1]) + 1
     /\ Denied(rec)
          => /\ rec.pc = "done" /\ rec.status = 429
             /\ rec.calls = <<"checkRateLimit">>
             /\ NoOutboundCall(rec) /\ PersistedBy(r) = {}
     /\ (Called(rec, "parseGitHubUrl") /\ rec.parsed.isNull)
          => /\ rec.pc = "done" /\ rec.status = 400
             /\ NoOutboundCall(rec) /\ PersistedBy(r) = {}
     /\ Called(rec, "fetchBuffer")
          => /\ MetadataRetrieved(rec)
             /\ ReportedBytes(rec) <= MAX_REPO_SIZE_BYTES
     /\ Called(rec, "uploadToCloudinary")
          => /\ Called(rec, "AdmZip")
             /\ Len(rec.files) >= 1
     /\ (Called(rec, "save") \/ PersistedBy(r) # {})
          => /\ Called(rec, "save")
             /\ Len(rec.upload) = Len(rec.files)
             /\ InFlight(rec) = {}
             /\ \E k \in 1..Len(rec.upload) : rec.upload[k] = "ok"

\* an import that went through every step, the master fallback included, and
\* committed after more than one batch of uploads
C11_Witness ==
  \E r \in Requests :
     /\ inv[r].status = 201
     /\ inv[r].zipFetches = <<Main, Master>>
     /\ Len(inv[r].upload) > BATCH_SIZE
     /\ \A s \in {"checkRateLimit", "parseGitHubUrl", "fetchJson", "fetchBuffer",
                  "AdmZip", "findOne", "uploadToCloudinary", "save"} :
          Called(inv[r], s)

(***************************************************************************)
(* C12.  One import retries nothing but the branch fallback: it makes at   *)
(* most one metadata fetch, at most two archive fetches (the second one    *)
(* against master, after a first one against another branch), one name     *)
(* lookup, at most one upload for each admitted entry and at most one save *)
(* of the container.                                                       *)
(***************************************************************************)
C12_NothingRetried ==
  \A r \in Requests :
     LET rec == inv[r] IN
     /\ Count(rec.calls, "fetchJson") <= 1
     /\ Count(rec.calls, "fetchBuffer") <= 2
     /\ Count(rec.calls, "fetchBuffer") = Len(rec.zipFetches)
     /\ Len(rec.zipFetches) = 2
          => rec.zipFetches[2] = Master /\ rec.zipFetches[1] # Master
     /\ Count(rec.calls, "findOne") <= 1
     /\ Count(rec.calls, "uploadToCloudinary") <= Len(rec.files)
     /\ Count(rec.calls, "save") <= 1
     /\ Cardinality(PersistedBy(r)) <= 1

\* an import that fell back to master, had an upload fail and was over when
\* its save failed: neither the upload nor the save was made again
C12_Witness ==
  \E r \in Requests :
     /\ inv[r].pc = "done" /\ inv[r].status = 500
     /\ Len(inv[r].zipFetches) = 2
     /\ \E k \in 1..Len(inv[r].upload) : inv[r].upload[k] = "failed"
     /\ Count(inv[r].calls, "uploadToCloudinary") = Len(inv[r].files)
     /\ Count(inv[r].calls, "save") = 1

(***************************************************************************)
(* C15.  When the size the metadata reports (KB * 1024) is above the       *)
(* ceiling, the import ends with a 413 error and fetches no archive,       *)
(* uploads nothing and persists nothing; a size equal to the ceiling, or   *)
(* no size at all, passes the gate: the archive is fetched.                *)
(***************************************************************************)
C15_SizeGate ==
  \A r \in Requests :
     LET rec == inv[r] IN
     MetadataRetrieved(rec)
        => /\ ReportedBytes(rec) > MAX_REPO_SIZE_BYTES
                => /\ rec.pc = "done" /\ rec.status = 413
                   /\ rec.body.error = "tooLarge"
                   /\ NothingAfterMetadata(r)
           /\ ReportedBytes(rec) <= MAX_REPO_SIZE_BYTES
                => /\ rec.status # 413
                   /\ Len(rec.zipFetches) >= 1
                   /\ Called(rec, "fetchBuffer")

\* a repository reported one KB above the ceiling, answered 413
C15_Witness ==
  \E r \in Requests :
     /\ inv[r].status = 413
     /\ inv[r].meta.hasSize
     /\ inv[r].meta.size = CeilingKB + 1

(***************************************************************************)
(* C17.  Whenever the metadata cannot be retrieved (a transport error, a   *)
(* status other than 200, a body that is not JSON), the import ends with   *)
(* the 404 error and fetches no archive, uploads nothing and persists      *)
(* nothing.                                                                *)
(***************************************************************************)
C17_NoMetadataIs404 ==
  \A r \in Requests :
     MetadataUnavailable(inv[r])
        => /\ inv[r].pc = "done" /\ inv[r].status = 404
           /\ inv[r].body.error = "repoNotFound"
           /\ NothingAfterMetadata(r)

\* a redirect of the metadata service, which fetchJson does not follow,
\* answered 404
C17_Witness ==
  \E r \in Requests :
     /\ inv[r].status = 404
     /\ inv[r].meta.transport = "ok"
     /\ inv[r].meta.statusCode = 302
     /\ inv[r].meta.parses

\* the fetchBuffer calls of an invocation that have had an event
Fetches(rec) == { rec.fetch[j] : j \in 1..Len(rec.fetch) }

RECURSIVE SumOf(_)
SumOf(lengths) ==
  IF lengths = <<>> THEN 0 ELSE Head(lengths) + SumOf(Tail(lengths))

(***************************************************************************)
(* C13.  A body fetch never succeeds with more than MAX_REPO_SIZE_BYTES:   *)
(* the bytes buffered never exceed the ceiling; as soon as the lengths of  *)
(* the chunks received add up to more, the fetch has failed for size, the  *)
(* response is destroyed and the chunk that went over is not buffered; and *)
(* a fetch that has failed for size does not resolve afterwards, whatever  *)
(* the response still delivers.                                            *)
(***************************************************************************)
C13_BodyNeverOverCeiling ==
  \A r \in Requests : \A f \in Fetches(inv[r]) :
     /\ SumOf(f.chunks) <= MAX_REPO_SIZE_BYTES
     /\ f.settled = "resolved" => f.totalSize <= MAX_REPO_SIZE_BYTES
     /\ f.totalSize <= MAX_REPO_SIZE_BYTES
          => ~f.destroyed /\ SumOf(f.chunks) = f.totalSize /\ f.reason # "size"
     /\ f.totalSize > MAX_REPO_SIZE_BYTES
          => /\ f.settled = "rejected" /\ f.reason = "size"
             /\ f.destroyed
             /\ Len(f.chunks) < f.events

\* a body that reached the ceiling exactly, went over with the next chunk,
\* and ended after it had been destroyed
C13_Witness ==
  \E r \in Requests : \E f \in Fetches(inv[r]) :
     /\ SumOf(f.chunks) = MAX_REPO_SIZE_BYTES
     /\ f.totalSize > MAX_REPO_SIZE_BYTES
     /\ f.destroyed /\ f.phase = "closed"
     /\ f.settled = "rejected"

(***************************************************************************)
(* C14.  A fetch follows at most 5 redirects.                              *)
(***************************************************************************)
C14_RedirectsBounded ==
  \A r \in Requests : \A f \in Fetches(inv[r]) : f.hops <= 5

(***************************************************************************)
(* C16.  When an archive download is aborted because the body exceeds the  *)
(* size ceiling, the import does not go on to fetch master.zip and does    *)
(* not answer with the 404 of a branch that was not found: it ends with a  *)
(* 413.                                                                    *)
(***************************************************************************)
C16_SizeAbortIsQuotaError ==
  \A r \in Requests :
     \A j \in 1..Len(inv[r].fetch) :
        inv[r].fetch[j].reason = "size"
           => /\ Len(inv[r].zipFetches) = j
              /\ ~(inv[r].status = 404 /\ inv[r].body.error = "branchNotFound")
              /\ inv[r].pc = "done" /\ inv[r].status = 413

(***************************************************************************)
(* C19.  Provided every outbound request, upload and database call         *)
(* completes, every import that has started ends: it sends exactly one     *)
(* response, 201 or one of 400, 404, 413, 429, 500.                        *)
(***************************************************************************)
C19_EveryImportEnds ==
  /\ [](\A r \in Requests :
          /\ inv[r].sent <= 1
          /\ inv[r].pc = "done" <=> inv[r].sent = 1
          /\ inv[r].pc = "done" => inv[r].status \in {201, 400, 404, 413, 429, 500})
  /\ \A r \in Requests : (inv[r].pc # "idle") ~> (inv[r].pc = "done")

(***************************************************************************)
(* C18.  The name under which an import commits its container is never     *)
(* the name, letter case aside, of a container that exists already: no two *)
(* containers of the collection have the same name, however many imports   *)
(* of the same repository follow one another.                              *)
(***************************************************************************)
C18_CommittedNamesDistinct ==
  \A j \in 1..Len(containers) : \A k \in 1..Len(containers) :
     j < k => toLowerCase(containers[j].name) # toLowerCase(containers[k].name)

(***************************************************************************)
(* C20.  For every input that is, between optional blanks and after an     *)
(* optional http:// or https://, github.com/{owner}/{repo} with owner and  *)
(* repo matching [A-Za-z0-9._-]+ and nothing after, parseGitHubUrl returns *)
(* a reference with branch "main".                                         *)
(***************************************************************************)
\* the claim as made
C20_PlainUrlParsesToMain ==
  \A r \in Requests :
     \A pre \in Blanks, protocol \in Protocols, post \in Blanks :
        \A owner \in ParseNames, repo \in ParseNames :
           (/\ Called(inv[r], "parseGitHubUrl")
            /\ inv[r].repoUrl = RepoUrlOf(pre, protocol, owner, repo, post))
              => /\ ~inv[r].parsed.isNull
                 /\ inv[r].parsed.branch = Main

\* C20 as amended: ... with owner and repo matching [A-Za-z0-9._-]+, repo
\* other than ".git", and nothing after, parseGitHubUrl returns a reference
\* with that owner, the repo without one trailing ".git", and branch "main";
\* for repo ".git", of which nothing is left without the suffix, it returns
\* null.
C20_PlainUrlParsesToMainUnlessDotGit ==
  \A r \in Requests :
     \A pre \in Blanks, protocol \in Protocols, post \in Blanks :
        \A owner \in ParseNames, repo \in ParseNames :
           (/\ Called(inv[r], "parseGitHubUrl")
            /\ inv[r].repoUrl = RepoUrlOf(pre, protocol, owner, repo, post))
              => IF repo = DotGit
                 THEN inv[r].parsed.isNull
                 ELSE /\ ~inv[r].parsed.isNull
                      /\ inv[r].parsed.branch = Main
                      /\ inv[r].parsed.owner = owner
                      /\ inv[r].parsed.repo \in {repo, SubSeq(repo, 1, Len(repo) - 4)}
                      /\ inv[r].parsed.repo = repo <=> ~endsWith(repo, DotGit)

\* " http://github.com/A-1/r.git " parsed to A-1, r, main
C20_Witness ==
  \E r \in Requests :
     /\ inv[r].repoUrl =
          RepoUrlOf(<<" ">>, Http, <<"A", "-", "1">>, <<"r">> \o DotGit, <<" ">>)
     /\ inv[r].parsed.owner = <<"A", "-", "1">>
     /\ inv[r].parsed.repo = <<"r">>
     /\ inv[r].parsed.branch = Main

(***************************************************************************)
(* C21.  For every input containing /tree/{b}, b without further slashes,  *)
(* parseGitHubUrl yields branch = b; when the segments after /tree/ are    *)
(* several, branch is those segments rejoined with '/'.                    *)
(***************************************************************************)
\* the segments rejoined with '/', written out
Rejoined(segments) ==
  IF Len(segments) = 1 THEN segments[1]
  ELSE segments[1] \o <<"/">> \o segments[2]

\* the claim as made: every input with /tree/ and segments after it
C21_TreeBranchParsed ==
  \A r \in Requests :
     \A protocol \in Protocols, owner \in ParseNames, repo \in ParseNames :
        \A c \in TreeCases :
           (/\ Called(inv[r], "parseGitHubUrl")
            /\ inv[r].repoUrl = RepoUrlOf(<<>>, protocol, owner, repo, c.text))
              => /\ ~inv[r].parsed.isNull
                 /\ inv[r].parsed.branch = Rejoined(c.segments)

\* C21 as amended: for every input that is, after an optional http:// or
\* https://, github.com/{owner}/{repo}/tree/{segments} with owner and repo
\* matching [A-Za-z0-9._-]+ and repo other than ".git", parseGitHubUrl
\* yields as branch the non-empty segments after /tree/ rejoined with '/':
\* b itself when there is one segment b.
C21_TreeThirdSegmentBranchParsed ==
  \A r \in Requests :
     \A protocol \in Protocols, owner \in ParseNames, repo \in ParseNames :
        \A c \in TreeCases :
           (/\ Called(inv[r], "parseGitHubUrl")
            /\ inv[r].repoUrl = RepoUrlOf(<<>>, protocol, owner, repo, c.text)
            /\ c.third
            /\ repo # DotGit)
              => /\ ~inv[r].parsed.isNull
                 /\ inv[r].parsed.branch = Rejoined(c.segments)

\* "https://github.com/o/r.git/tree/a//b/" parsed to o, r, branch a/b
C21_Witness ==
  \E r \in Requests :
     /\ inv[r].repoUrl =
          RepoUrlOf(<<>>, Https, <<"o">>, <<"r">> \o DotGit,
                    <<"/">> \o Tree \o <<"/","a","/","/","b","/">>)
     /\ ~inv[r].parsed.isNull
     /\ inv[r].parsed.repo = <<"r">>
     /\ inv[r].parsed.branch = <<"a", "/", "b">>

(***************************************************************************)
(* C22.  parseGitHubUrl returns a reference only if, after the scheme is   *)
(* stripped, the string starts with github.com/ and has at least two       *)
(* non-empty path segments; in every returned reference owner and repo are *)
(* non-empty and match [A-Za-z0-9._-]+ and repo has a trailing .git        *)
(* removed; in every other case it returns null, and the handler answers   *)
(* 400 having called nothing else and written no container.                *)
(***************************************************************************)
MatchesAllowPattern(s) ==
  /\ s # <<>>
  /\ \A i \in 1..Len(s) :
        IsLetter(s[i]) \/ s[i] \in Digits \/ s[i] \in {".", "_", "-"}

WithoutDotGit(s) ==
  IF Len(s) >= 4 /\ SubSeq(s, Len(s) - 3, Len(s)) = <<".","g","i","t">>
  THEN SubSeq(s, 1, Len(s) - 4) ELSE s

C22_ReferenceOnlyForGitHubOwnerRepo ==
  \A r \in Requests :
     \A pre \in Blanks, protocol \in Protocols, c \in PathCases :
        (/\ Called(inv[r], "parseGitHubUrl")
         /\ inv[r].repoUrl = pre \o protocol \o c.host \o c.text)
           => LET wellFormed == /\ c.host = GitHubHost
                                /\ Len(c.segments) >= 2
                  accepted == /\ wellFormed
                              /\ MatchesAllowPattern(c.segments[1])
                              /\ MatchesAllowPattern(WithoutDotGit(c.segments[2]))
              IN /\ ~inv[r].parsed.isNull <=> accepted
                 /\ ~inv[r].parsed.isNull =>
                      /\ inv[r].parsed.owner = c.segments[1]
                      /\ inv[r].parsed.repo = WithoutDotGit(c.segments[2])
                      /\ MatchesAllowPattern(inv[r].parsed.owner)
                      /\ MatchesAllowPattern(inv[r].parsed.repo)
                 /\ inv[r].parsed.isNull =>
                      /\ inv[r].status = 400
                      /\ inv[r].calls = <<"checkRateLimit", "parseGitHubUrl">>
                      /\ containers = <<>>

\* "github.com/o!/r" refused with 400
C22_Witness ==
  \E r \in Requests :
     /\ inv[r].repoUrl = GitHubHost \o <<"o", "!", "/", "r">>
     /\ Called(inv[r], "parseGitHubUrl")
     /\ inv[r].parsed.isNull
     /\ inv[r].status = 400

(***************************************************************************)
(* C23.  On a read-only container, POST /:id/files adds a file only when   *)
(* the request carries the container's admin password in x-admin-password: *)
(* a request answered 201, whose file is in the container, had it.         *)
(***************************************************************************)
C23_ReadOnlyUploadNeedsAdminPassword ==
  \A r \in Requests :
     (/\ inv[r].pc = "done"
      /\ inv[r].status = 201
      /\ containers[inv[r].id].readOnly)
        => inv[r].adminHeader = containers[inv[r].id].adminPassword

(***************************************************************************)
(* C24.  At the end of extraction the number of admitted entries plus      *)
(* skippedCount equals the number of archive entries that are not          *)
(* directories and whose path is non-empty after root-prefix stripping:    *)
(* each such entry adds one file or adds one to skippedCount, never both,  *)
(* and a directory entry or an entry of empty path changes neither.        *)
(***************************************************************************)
\* entry k is a file whose path is not empty once the root prefix is taken off
Examined(rec, k) ==
  /\ ~rec.entries[k].isDirectory
  /\ RelativePath(rec, k) # <<>>

C24_AdmittedPlusSkippedIsExamined ==
  \A r \in Requests :
     LET rec == inv[r] IN
     rec.trace # <<>> =>
       /\ Len(rec.files) + rec.skippedCount =
            Cardinality({ k \in 1..Len(rec.entries) : Examined(rec, k) })
       /\ \A k \in 1..Len(rec.entries) :
            LET before == rec.trace[k]
                after == rec.trace[k + 1]
            IN IF Examined(rec, k)
               THEN \/ /\ Len(after.files) = Len(before.files) + 1
                       /\ SubSeq(after.files, 1, Len(before.files)) = before.files
                       /\ after.skippedCount = before.skippedCount
                    \/ Rejected(rec, k)
               ELSE /\ after.files = before.files
                    /\ after.skippedCount = before.skippedCount

\* a directory, two files admitted and one refused: 2 + 1 = 3 of 4 entries
C24_Witness ==
  \E r \in Requests :
     /\ Len(inv[r].entries) = 4
     /\ \E k \in 1..4 : inv[r].entries[k].isDirectory
     /\ Len(inv[r].files) = 2
     /\ inv[r].skippedCount = 1

C26_RelativePathsDistinct ==
  /\ \A r \in Requests : \A j, k \in 1..Len(inv[r].files) :
        j < k => inv[r].files[j].relativePath # inv[r].files[k].relativePath
  /\ \A c \in 1..Len(containers) : \A j, k \in 1..Len(containers[c].files) :
        j < k => containers[c].files[j].relativePath
                   # containers[c].files[k].relativePath

(***************************************************************************)
(* C27.  Two concurrent imports of the same owner/repo can both look the   *)
(* name up before either saves, both find that it does not exist, and both *)
(* persist a container of that name: the name is decided at the lookup,    *)
(* kept whatever is saved meanwhile, and saved without a second look; the  *)
(* uploads of an import are all called after its lookup and before its     *)
(* save.                                                                   *)
(***************************************************************************)
DerivedName == <<"g","h","-","o","-","r">>

C27_NameDecidedAtLookupSavedUnchecked ==
  /\ [](\A r \in DOMAIN inv :
          LET calls == inv[r].calls IN
          \A k \in 1..Len(calls) :
             calls[k] = "uploadToCloudinary" =>
               /\ \E f \in 1..(k - 1) : calls[f] = "findOne"
               /\ \A v \in 1..Len(calls) : calls[v] = "save" => k < v)
  /\ [][\A r \in DOMAIN inv :
          /\ (/\ inv[r].pc = "awaitFindOne"
              /\ inv'[r].pc = "awaitBatch"
              /\ \A k \in 1..Len(containers) :
                    toLowerCase(containers[k].name) # toLowerCase(DerivedName))
               => inv'[r].finalName = DerivedName
          /\ (/\ inv[r].pc \in {"awaitBatch", "awaitSave"}
              /\ inv'[r].pc \in {"awaitBatch", "awaitSave", "done"})
               => inv'[r].finalName = inv[r].finalName
          /\ (/\ inv[r].pc = "awaitSave"
              /\ inv'[r].status = 201)
               => /\ Len(containers') = Len(containers) + 1
                  /\ containers'[Len(containers')].name = inv[r].finalName
                  /\ containers'[Len(containers')].by = r]_vars

\* both imports answered 201, each having found no container of the name,
\* and two containers named gh-o-r stored
C27_Witness ==
  /\ Len(containers) = 2
  /\ containers[1].name = DerivedName
  /\ containers[2].name = DerivedName
  /\ containers[1].by # containers[2].by
  /\ \A r \in DOMAIN inv :
        /\ inv[r].status = 201
        /\ inv[r].finalName = DerivedName
        /\ Called(inv[r], "uploadToCloudinary")

(***************************************************************************)
(* C28.  The name lookup before the container is created reports an        *)
(* existing container if and only if a stored name equals the derived name *)
(* gh-{owner}-{repo}, letter case aside, also for names with a '.': while  *)
(* the import uploads and saves, its name carries a suffix exactly when    *)
(* such a stored name exists.                                              *)
(***************************************************************************)
C28_LookupIsExactMatch ==
  \A r \in Requests :
     inv[r].pc \in {"awaitBatch", "awaitSave"} =>
       LET containerName == containerNameOf(inv[r].owner, inv[r].repo) IN
       (inv[r].finalName # containerName)
         <=> \E k \in 1..Len(containers) :
                toLowerCase(containers[k].name) = toLowerCase(containerName)

(***************************************************************************)
(* C29.  In every reachable state every entry of the rate-limit map has    *)
(* 1 <= count <= RATE_LIMIT_MAX, and for each client the number of allowed *)
(* checks from the check that created or reset its entry up to that        *)
(* entry's resetTime is at most RATE_LIMIT_MAX.                            *)
(***************************************************************************)
\* the allowed checks of client c from check j up to time t
AllowedFrom(c, j, t) ==
  { k \in j..Len(log[c]) : log[c][k][1] <= t /\ log[c][k][2] }

C29_CountWithinOneToMax ==
  \A c \in Clients :
     /\ rateLimitMap[c] # NoEntry =>
          /\ rateLimitMap[c].count >= 1
          /\ rateLimitMap[c].count <= RATE_LIMIT_MAX
          /\ Len(log[c]) >= 1
          /\ LET j == OpenerIdx(log[c], Len(log[c])) IN
               /\ rateLimitMap[c].resetTime = log[c][j][1] + RATE_LIMIT_WINDOW
               /\ rateLimitMap[c].count =
                    Cardinality(AllowedFrom(c, j, rateLimitMap[c].resetTime))
     /\ \A j \in 1..Len(log[c]) :
          OpenerIdx(log[c], j) = j =>
            Cardinality(AllowedFrom(c, j, log[c][j][1] + RATE_LIMIT_WINDOW))
              <= RATE_LIMIT_MAX

\* a client with count at RATE_LIMIT_MAX and a check denied since
C29_Witness ==
  \E c \in Clients :
     /\ rateLimitMap[c] # NoEntry
     /\ rateLimitMap[c].count = RATE_LIMIT_MAX
     /\ Len(log[c]) > RATE_LIMIT_MAX
     /\ ~log[c][Len(log[c])][2]

(***************************************************************************)
(* C30.  The window is fixed, not sliding: an entry's resetTime is written *)
(* only by a check that finds no entry or finds now > resetTime, and is    *)
(* then now + RATE_LIMIT_WINDOW; an allowed check inside the window        *)
(* changes only count, a denied check changes nothing in the map, and a    *)
(* check at now = resetTime is counted against the old window.             *)
(***************************************************************************)
C30_FixedWindowFrame ==
  [][\A c \in Clients :
       LET entry == rateLimitMap[c]
           entryAfter == rateLimitMap'[c]
           checked == log'[c] # log[c]
           allowed == log'[c][Len(log'[c])][2]
       IN /\ checked =>
               /\ \A d \in Clients \ {c} : rateLimitMap'[d] = rateLimitMap[d]
               /\ IF entry = NoEntry \/ now > entry.resetTime
                  THEN /\ allowed
                       /\ entryAfter =
                            [count |-> 1, resetTime |-> now + RATE_LIMIT_WINDOW]
                  ELSE /\ entryAfter.resetTime = entry.resetTime
                       /\ allowed => entryAfter.count = entry.count + 1
                       /\ ~allowed => rateLimitMap' = rateLimitMap
          /\ (entryAfter # NoEntry /\ entryAfter.resetTime # entry.resetTime) =>
               /\ checked
               /\ entry = NoEntry \/ now > entry.resetTime
               /\ entryAfter.resetTime = now + RATE_LIMIT_WINDOW]_vars

\* a check made at resetTime itself, counted in the window it closes
C30_Witness ==
  \E c \in Clients :
     /\ rateLimitMap[c] # NoEntry
     /\ Len(log[c]) >= 2
     /\ log[c][Len(log[c])][1] = rateLimitMap[c].resetTime
     /\ log[c][Len(log[c])][2]
     /\ rateLimitMap[c].count >= 2
     /\ now = rateLimitMap[c].resetTime

(***************************************************************************)
(* C31.  The sweep deletes exactly the entries whose window has expired    *)
(* (now > resetTime), and it cannot be observed: wherever sweeps ran       *)
(* between the checks, the next check of every client is decided as it     *)
(* would be had no sweep ever run.                                         *)
(***************************************************************************)
\* the map after the first k checks of client c, had no sweep run
RECURSIVE Unswept(_, _)
Unswept(c, k) ==
  IF k = 0 THEN [ip \in Clients |-> NoEntry]
  ELSE checkRateLimit(Unswept(c, k - 1), c, log[c][k][1]).map

C31_SweepDeletesExpiredUnobserved ==
  /\ [](\A c \in Clients :
          LET kept == Unswept(c, Len(log[c])) IN
          /\ rateLimitMap[c] \in {kept[c], NoEntry}
          /\ (rateLimitMap[c] = NoEntry /\ kept[c] # NoEntry)
               => now > kept[c].resetTime
          /\ checkRateLimit(rateLimitMap, c, now).allowed
               = checkRateLimit(kept, c, now).allowed)
  /\ [][(log' = log /\ rateLimitMap' # rateLimitMap) =>
          \A c \in Clients :
             rateLimitMap'[c] =
               IF rateLimitMap[c] # NoEntry /\ now > rateLimitMap[c].resetTime
               THEN NoEntry ELSE rateLimitMap[c]]_vars

\* one client's expired entry swept, the other's live entry kept
C31_Witness ==
  \E c \in Clients, d \in Clients :
     /\ rateLimitMap[c] = NoEntry
     /\ log[c] # <<>>
     /\ rateLimitMap[d] # NoEntry
     /\ now <= rateLimitMap[d].resetTime

(***************************************************************************)
(* C32.  Rate limiting is isolated per client: a check for client A never  *)
(* creates, changes or removes the entry of another client B, and the      *)
(* decisions B gets are those B's own checks alone would get, however A's  *)
(* checks are interleaved with them.                                       *)
(***************************************************************************)
C32_ClientsIsolated ==
  /\ [](\A c \in Clients : \A k \in 1..Len(log[c]) :
          log[c][k][2]
            = checkRateLimit(Unswept(c, k - 1), c, log[c][k][1]).allowed)
  /\ [][\A c \in Clients :
          log'[c] # log[c] =>
            \A d \in Clients \ {c} :
               /\ rateLimitMap'[d] = rateLimitMap[d]
               /\ log'[d] = log[d]]_vars

\* both clients checked in the same window; one is denied, the other allowed
C32_Witness ==
  \E c \in Clients, d \in Clients :
     /\ c # d
     /\ Len(log[c]) > RATE_LIMIT_MAX
     /\ ~log[c][Len(log[c])][2]
     /\ Len(log[d]) >= 1
     /\ log[d][Len(log[d])][2]
     /\ log[d][Len(log[d])][1] = log[c][Len(log[c])][1]
     /\ rateLimitMap[d].count = 1

(***************************************************************************)
(* C33.  Every POST /import the rate limiter allows uses up one unit of    *)
(* the client's window, whatever comes of it: the count of the client's    *)
(* entry is the number of its requests allowed in the window, be they      *)
(* answered 400, 404, 413, 500 or 201; the sixth request of the window is  *)
(* answered 429, and no step but the arrival of a request changes the map. *)
(***************************************************************************)
C33_EveryAllowedRequestCounts ==
  /\ [](\A c \in Clients :
          /\ rateLimitMap[c] # NoEntry <=> log[c] # <<>>
          /\ rateLimitMap[c].count =
               Cardinality({ k \in 1..Len(log[c]) : log[c][k][2] })
          /\ \A k \in 1..Len(log[c]) : log[c][k][2] <=> k <= RATE_LIMIT_MAX)
  /\ [](\A r \in Requests :
          inv[r].pc = "done" =>
            /\ inv[r].status \in {429, 400, 404, 413, 500, 201}
            /\ inv[r].status = 429 <=> ~log[inv[r].clientIp][Len(log[inv[r].clientIp])][2])
  /\ [][rateLimitMap' # rateLimitMap =>
          \E r \in Requests : inv[r].pc = "idle" /\ inv'[r].pc # "idle"]_vars

\* the sixth request denied, none of the five before it having succeeded
C33_Witness ==
  \E r \in Requests :
     /\ inv[r].pc = "done"
     /\ inv[r].status = 429
     /\ Len(log["a"]) = RATE_LIMIT_MAX + 1
     /\ rateLimitMap["a"].count = RATE_LIMIT_MAX
     /\ containers = <<>>

(***************************************************************************)
(* C34.  The files an import persists are a subsequence of the admitted    *)
(* entries, in their order: each persisted file is an admitted entry whose *)
(* upload succeeded, and of two persisted files the one persisted first    *)
(* was admitted first, whichever uploads settle first and whichever fail.  *)
(***************************************************************************)
\* P is made of the elements of F at the places f, which go up
EmbedsInOrder(P, F, f) ==
  /\ \A j \in 1..Len(P) :
        /\ P[j].relativePath = F[f[j]].relativePath
        /\ P[j].originalName = F[f[j]].filename
        /\ P[j].size = F[f[j]].size
  /\ \A j \in 1..Len(P) : \A k \in 1..Len(P) : j < k => f[j] < f[k]

C34_PersistedInAdmissionOrder ==
  \A r \in Requests : \A c \in PersistedBy(r) :
     LET P == containers[c].files
         F == inv[r].files
     IN /\ Len(P) <= Len(F)
        /\ \E f \in [1..Len(P) -> 1..Len(F)] :
              /\ EmbedsInOrder(P, F, f)
              /\ \A j \in 1..Len(P) : inv[r].upload[f[j]] = "ok"

\* two files of different paths persisted, in the order of their admission
C34_Witness ==
  \E r \in Requests : \E c \in PersistedBy(r) :
     /\ Len(containers[c].files) = 2
     /\ containers[c].files[1].relativePath # containers[c].files[2].relativePath
     /\ containers[c].files[1].relativePath = inv[r].files[1].relativePath
     /\ containers[c].files[2].relativePath = inv[r].files[2].relativePath

(***************************************************************************)
(* C35.  In every 201 response totalSize is the sum of the sizes of the    *)
(* files persisted in the container, also when some of the admitted        *)
(* entries failed to upload.                                               *)
(***************************************************************************)
C35_TotalSizeIsPersistedSum ==
  \A r \in Requests : \A c \in PersistedBy(r) :
     (inv[r].pc = "done" /\ inv[r].status = 201) =>
        inv[r].body.totalSize =
          SumOf([j \in 1..Len(containers[c].files) |-> containers[c].files[j].size])

(***************************************************************************)
(* C36.  A channel link gives write access (/text, /createclipboard,       *)
(* attachments) to a read-only container only if the admin password kept   *)
(* in the link was verified against the container: a write that went       *)
(* through on a container found read-only was made with a password that    *)
(* verifyAdminPassword has accepted.                                       *)
(***************************************************************************)
C36_WriteOnReadOnlyNeedsVerifiedPassword ==
  \A r \in Requests :
     (/\ inv[r].pc = "done"
      /\ inv[r].reply = "written"
      /\ inv[r].wasReadOnly)
        => inv[r].link \in inv[r].accepted

(***************************************************************************)
(* C37.  The cleanup never deletes a container whose lastAccessed is       *)
(* within the retention period at the moment of its deletion, also when a  *)
(* request touches the container between the query and the delete.         *)
(***************************************************************************)
C37_NoFreshContainerDeleted ==
  \A c \in 1..Len(containers) :
     containers[c].deletedAt # -1 =>
       containers[c].lastAccessed < containers[c].deletedAt - RetentionDays

(***************************************************************************)
(* C38.  connectWithRetry makes at most MAX_RETRIES connection attempts:   *)
(* the server listens (and the cron job is scheduled) only after an        *)
(* attempt succeeded, and at most once; another attempt follows a failed   *)
(* one only while fewer than MAX_RETRIES were made; after the fifth        *)
(* failure in a row the process exits with code 1, never having listened.  *)
(***************************************************************************)
Failed(outcome) == outcome # "listenCalled"

C38_AtMostMaxRetriesAttempts ==
  \A r \in Requests :
     LET rec == inv[r]
         n == Len(rec.outcomes)
     IN /\ rec.attempts <= MAX_RETRIES
        /\ n <= rec.attempts
        /\ rec.attempts <= n + 1
        /\ \A k \in 1..(n - 1) : Failed(rec.outcomes[k])
        /\ rec.listening <= 1
        /\ rec.cronJobs = rec.listening
        /\ rec.listening = 1 =>
             (n >= 1 /\ rec.outcomes[n] = "listenCalled")
        /\ rec.attempts > n => n < MAX_RETRIES
        /\ (n >= 1 /\ Failed(rec.outcomes[n])) =>
             IF n < MAX_RETRIES
             THEN rec.pc \in {"awaitTimer", "awaitConnect"} /\ rec.exitCode = 0
             ELSE rec.pc = "exited" /\ rec.exitCode = 1 /\ rec.listening = 0
        /\ rec.pc = "exited" => (n = MAX_RETRIES /\ Failed(rec.outcomes[n]))

\* five attempts failed, the process exited with code 1
C38_Witness ==
  \E r \in Requests :
     /\ inv[r].pc = "exited"
     /\ inv[r].attempts = MAX_RETRIES
     /\ inv[r].exitCode = 1
     /\ inv[r].outcomes[1] = "connectFailed"

=============================================================================
